---------------------------- MODULE Spec2Model ----------------------------
(***************************************************************************)
(* Model of the text-overlay engine of Articl2Video:                       *)
(*   image_utils.smart_wrap_text, text_overlay.add_text_to_image and       *)
(*   text_overlay.add_text_to_image_old (frame-border detection, margins,  *)
(*   font-fit loop, keyword splitter).                                     *)
(*                                                                         *)
(* A Python str is a sequence of one-character strings.  Pixel sizes are   *)
(* integers.  The products with 1.1 and 1.2 are kept exact by comparing    *)
(* in tenths of a pixel.                                                   *)
(***************************************************************************)
EXTENDS Integers, Sequences, FiniteSets, TLC

VARIABLES
    \* ---- smart_wrap_text (image_utils.py) ----
    wrap_text,      \* the text argument
    wrap_font,      \* the font argument: its size and glyph metrics
    max_width,      \* the max_width argument
    words,          \* text.split()
    word_i,         \* position of the for loop over words
    lines,          \* the list of finished lines
    current_line,   \* words of the line being filled
    current_width,  \* accumulated width of current_line
    wrap_pc,        \* "loop" | "done"
    \* ---- add_text_to_image_old (text_overlay.py): canvas and margins ----
    width,               \* img.size[0]
    height,              \* img.size[1]
    frame_exists,        \* a frame file was found (line 245)
    frame_border_width,  \* result of the border detection
    left_margin,
    right_margin,
    bottom_margin,
    top_margin,
    max_text_width,
    max_text_height,
    margin_pc,           \* "compute" | "done"
    \* ---- add_text_to_image_old: font-fit loop ----
    text,               \* the caption
    font_env,           \* which fonts the machine can load
    initial_font_size,
    font_size,
    font,               \* the loaded font object (NoFont: None)
    text_too_large,
    attempt,
    wrapped_lines,      \* lines of the last attempt that wrapped
    final_font_path,
    final_lines,        \* `lines` of line 464
    fit_pc,             \* "start" | "loop" | "fitted" | "wrapped"
    \* ---- add_text_to_image_old: frame-border detection ----
    custom_frame_file,  \* the file cache/custom/frame.png
    local_frame_file,   \* the file frame.png
    frame_rgba,         \* the opened frame image
    edge_points,        \* the sample points of the four edges, in order
    point_i,            \* position of the loops over edge_points
    border_samples,
    detect_pc,          \* "start" | "sample" | "done" | "raised"
    \* ---- add_text_to_image_old: keywords and per-line run splitting ----
    green_words,
    has_highlights,
    display_text,
    display_lines,
    line_i,             \* position of `for line in display_lines`
    in_sub,             \* the line took the sub-line path of line 551
    sub_lines,
    sub_i,              \* position of `for sub_line in sub_lines`
    cur_line,           \* the line or sub_line whose runs were built last
    parts,              \* its (text, color) runs
    line_y,             \* in tenths of a pixel
    split_pc,           \* "keywords" | "wrap" | "lines" | "runs" | "done"
                        \* | "raised"
    \* ---- add_text_to_image (text_overlay.py lines 8-213) ----
    image_file,         \* the file at image_path
    font_files,         \* the candidate font files: "absent" | "ok" | "corrupt"
    logo_file,          \* cache/custom/logo.png: "absent" | "ok" | "corrupt"
    output_dir,         \* os.path.dirname(output_path): "" | "existing" | "missing"
    img,                \* the image being composed
    loaded_font,        \* "none" | "custom" | "default"
    logo_added,
    frame_added,
    quoted_texts,
    start_y,
    wrapped_display_lines,
    overlay_i,          \* position of the loop over wrapped_display_lines
    drawn_runs,         \* line_positions of every line drawn so far
    saved_file,         \* the file at output_path
    result,             \* "running" | "True" | "False"
    overlay_pc,         \* "open" | "logo" | "wrap" | "draw" | "frame" | "save" | "done"
    \* ---- one call of add_text_to_image_old, from entry to return ----
    old_pc,             \* "open" | "detect" | "dim" | "logo" | "text" | "save"
                        \* | "returned" | "raised"
    layers,             \* what was composited or drawn on the image, in order
    \* ---- two overlay calls running side by side on one file system ----
    par_before,         \* the files and directories before the calls
    par_fs,             \* path -> content of the file
    par_dirs,           \* the directories that exist
    par_args,           \* call -> its function and arguments
    par_local,          \* call -> the images it has read
    par_pc,             \* call -> "open" | "detect" | "logo" | "frame"
                        \*         | "mkdir" | "save" | "done"
    par_status,         \* call -> "running" | "True" | "False" | "returned"
                        \*         | "raised"
    \* ---- the logo of add_text_to_image (lines 52-82) ----
    logo_size,          \* logo.size of the file cache/custom/logo.png
    logo_box,           \* rows covered by the resized logo on the canvas
    \* ---- calculate_shadow (image_utils.py lines 9-32) ----
    shadow_font_size,   \* argument font_size
    text_prominence,    \* argument, in tenths: 10 | 12
    shadow_offset,
    shadow_opacity,
    shadow_pc,          \* "call" | "returned"
    \* ---- the draw loops of add_text_to_image_old (lines 593-635, 673-711) ----
    drawn_parts,        \* every draw.text call of the text, in order
    \* ---- do_work (app_controller.py, main.py) ----
    work_src,           \* "app_controller" | "main": the module of do_work
    summary_len,        \* len(data["summary"])
    skip_image_generation,
    work_i,             \* the bullet point of the running loop, from 1
    overlay_calls,      \* the calls of add_text_to_image made so far
    work_pc,            \* "idle" | "images" | "batch" | "fallback"
                        \* | "video" | "done"
    \* ---- check_session_state_integrity (streamlit_app.py) ----
    session_keys,       \* the required arrays that st.session_state has
    bullet_points,      \* st.session_state.bullet_points
    frame_images,       \* st.session_state.frame_images (paths or None)
    frame_image_bytes,  \* st.session_state.frame_image_bytes
    frame_durations,    \* st.session_state.frame_durations, in tenths of a s
    repairs_made,       \* what the last call returned
    session_before,     \* the arrays before the first call
    length_repairs,     \* for each call made: a length was repaired
    \* ---- image_audio_to_video (video_creator.py) ----
    num_points,         \* the bullet points of the run
    missing_audio,      \* the bullet point whose audio file was not written,
                        \* or 0
    add_voiceover,
    image_files,        \* sorted(glob(cache/clg/*.jpg)), as bullet numbers
    audio_files,        \* sorted(glob(cache/aud/*.mp3)), as bullet numbers
    clips,              \* the clips built so far
    video_i,            \* the index i of the loop over image_files, from 0
    video_pc            \* "idle" | "list" | "clips" | "done"

wrapVars == <<wrap_text, wrap_font, max_width, words, word_i, lines,
              current_line, current_width, wrap_pc>>

marginVars == <<width, height, frame_exists, frame_border_width, left_margin,
                right_margin, bottom_margin, top_margin, max_text_width,
                max_text_height, margin_pc>>

fitVars == <<text, font_env, initial_font_size, font_size, font,
             text_too_large, attempt, wrapped_lines, final_font_path,
             final_lines, fit_pc>>

detectVars == <<custom_frame_file, local_frame_file, frame_rgba, edge_points,
                point_i, border_samples, detect_pc>>

splitVars == <<green_words, has_highlights, display_text, display_lines,
               line_i, in_sub, sub_lines, sub_i, cur_line, parts, line_y,
               split_pc>>

overlayVars == <<image_file, font_files, logo_file, output_dir, img,
                 loaded_font, logo_added, frame_added, quoted_texts, start_y,
                 wrapped_display_lines, overlay_i, drawn_runs, saved_file,
                 result, overlay_pc>>

callVars == <<old_pc, layers>>

parVars == <<par_before, par_fs, par_dirs, par_args, par_local, par_pc,
             par_status>>

logoVars == <<logo_size, logo_box>>

shadowVars == <<shadow_font_size, text_prominence, shadow_offset,
                shadow_opacity, shadow_pc>>

drawVars == <<drawn_parts>>

workVars == <<work_src, summary_len, skip_image_generation, work_i,
              overlay_calls, work_pc>>

videoVars == <<num_points, missing_audio, add_voiceover, image_files,
               audio_files, clips, video_i, video_pc>>

sessionVars == <<session_keys, bullet_points, frame_images, frame_image_bytes,
                 frame_durations, repairs_made, session_before,
                 length_repairs>>

vars == <<wrapVars, marginVars, fitVars, detectVars, splitVars, overlayVars,
          callVars, parVars, logoVars, shadowVars, drawVars, workVars,
          sessionVars, videoVars>>

-----------------------------------------------------------------------------
(* Bounds of the model *)

\* longest text given to the wrapper, in characters
MaxTextLen == 6

\* largest font size given to calculate_shadow
MaxShadowFontSize == 150

\* largest frame_border_width given to the margin computation
MaxBorderWidth == 170

\* longest caption given to the font-fit loop, in words
MaxWords == 16

\* the longest caption given to the keyword splitter
MaxCaptionLen == 7

\* the longest caption given to add_text_to_image, in words
MaxCaptionTokens == 3

-----------------------------------------------------------------------------
(* The state of each part of the engine while it is not running *)

WrapIdle ==
    /\ wrap_text = <<>>
    /\ wrap_font = [size |-> 4, lsb |-> 0]
    /\ max_width = 0
    /\ words = <<>>
    /\ word_i = 1
    /\ lines = <<>>
    /\ current_line = <<>>
    /\ current_width = 0
    /\ wrap_pc = "idle"

MarginIdle ==
    /\ width = 0
    /\ height = 0
    /\ frame_exists = FALSE
    /\ frame_border_width = 0
    /\ left_margin = 0
    /\ right_margin = 0
    /\ bottom_margin = 0
    /\ top_margin = 0
    /\ max_text_width = 0
    /\ max_text_height = 0
    /\ margin_pc = "idle"

\* None, as the value of `font`
NoFont == [size |-> 0, lsb |-> 0]

FitIdle ==
    /\ text = <<>>
    /\ font_env = [system |-> FALSE, bundled |-> "absent", variant |-> FALSE]
    /\ initial_font_size = 0
    /\ font_size = 0
    /\ font = NoFont
    /\ text_too_large = FALSE
    /\ attempt = 0
    /\ wrapped_lines = <<>>
    /\ final_font_path = "None"
    /\ final_lines = <<>>
    /\ fit_pc = "idle"

\* a file that does not exist, and the image of no file
NoFile == [exists |-> FALSE, readable |-> FALSE, fw |-> 0, fh |-> 0,
           l |-> 0, r |-> 0, t |-> 0, b |-> 0]

DetectIdle ==
    /\ custom_frame_file = NoFile
    /\ local_frame_file = NoFile
    /\ frame_rgba = NoFile
    /\ edge_points = <<>>
    /\ point_i = 1
    /\ border_samples = <<>>
    /\ detect_pc = "idle"

SplitIdle ==
    /\ green_words = <<>>
    /\ has_highlights = FALSE
    /\ display_text = <<>>
    /\ display_lines = <<>>
    /\ line_i = 1
    /\ in_sub = FALSE
    /\ sub_lines = <<>>
    /\ sub_i = 1
    /\ cur_line = <<>>
    /\ parts = <<>>
    /\ line_y = 0
    /\ split_pc = "idle"

\* no image: a file that was not written, an image that was not opened
NoImage == [exists |-> FALSE, readable |-> FALSE, w |-> 0, h |-> 0]

OverlayIdle ==
    /\ image_file = NoImage
    /\ font_files = "absent"
    /\ logo_file = "absent"
    /\ output_dir = "existing"
    /\ img = NoImage
    /\ loaded_font = "none"
    /\ logo_added = FALSE
    /\ frame_added = FALSE
    /\ quoted_texts = <<>>
    /\ start_y = 0
    /\ wrapped_display_lines = <<>>
    /\ overlay_i = 1
    /\ drawn_runs = <<>>
    /\ saved_file = NoImage
    /\ result = "running"
    /\ overlay_pc = "idle"

CallIdle ==
    /\ old_pc = "idle"
    /\ layers = <<>>

NoLogoBox == [top |-> 0, bottom |-> 0]

DrawIdle == drawn_parts = <<>>

VideoIdle ==
    /\ num_points = 0
    /\ missing_audio = 0
    /\ add_voiceover = FALSE
    /\ image_files = <<>>
    /\ audio_files = <<>>
    /\ clips = <<>>
    /\ video_i = 0
    /\ video_pc = "idle"

SessionIdle ==
    /\ session_keys = {}
    /\ bullet_points = <<>>
    /\ frame_images = <<>>
    /\ frame_image_bytes = <<>>
    /\ frame_durations = <<>>
    /\ repairs_made = FALSE
    /\ session_before = <<>>
    /\ length_repairs = <<>>

WorkIdle ==
    /\ work_src = "main"
    /\ summary_len = 0
    /\ skip_image_generation = FALSE
    /\ work_i = 1
    /\ overlay_calls = <<>>
    /\ work_pc = "idle"

ShadowIdle ==
    /\ shadow_font_size = 0
    /\ text_prominence = 10
    /\ shadow_offset = 0
    /\ shadow_opacity = 0
    /\ shadow_pc = "idle"

LogoIdle ==
    /\ logo_size = <<0, 0>>
    /\ logo_box = NoLogoBox

ParIdle ==
    /\ par_before = <<>>
    /\ par_fs = <<>>
    /\ par_dirs = {}
    /\ par_args = <<>>
    /\ par_local = <<>>
    /\ par_pc = <<>>
    /\ par_status = <<>>

-----------------------------------------------------------------------------
(* Strings *)

SP == " "

Min2(a, b) == IF a < b THEN a ELSE b

Max2(a, b) == IF a > b THEN a ELSE b

\* all sequences over S of length 0..n
SeqsUpTo(S, n) == UNION {[1..k -> S] : k \in 0..n}

RECURSIVE Concat(_)
\* "".join(ss)
Concat(ss) == IF ss = <<>> THEN <<>> ELSE Head(ss) \o Concat(Tail(ss))

RECURSIVE Join(_)
\* " ".join(ws)
Join(ws) ==
    IF ws = <<>> THEN <<>>
    ELSE IF Len(ws) = 1 THEN ws[1]
    ELSE ws[1] \o <<SP>> \o Join(Tail(ws))

RECURSIVE SplitFrom(_, _)
\* str.split(): the maximal runs of non-space characters, in order;
\* cur is the word being read
SplitFrom(s, cur) ==
    IF s = <<>> THEN (IF cur = <<>> THEN <<>> ELSE <<cur>>)
    ELSE IF Head(s) = SP
         THEN (IF cur = <<>> THEN SplitFrom(Tail(s), <<>>)
               ELSE <<cur>> \o SplitFrom(Tail(s), <<>>))
         ELSE SplitFrom(Tail(s), Append(cur, Head(s)))

Split(s) == SplitFrom(s, <<>>)

-----------------------------------------------------------------------------
(* The font measurer: ImageDraw.textbbox((0, 0), s, font=font)             *)
(* A font is [size, lsb].  Every letter advances size/2 pixels and a space *)
(* size/4.  The glyph "j" reaches lsb pixels to the left of the pen        *)
(* origin, so a string that starts with it has bbox[0] = -lsb; the right   *)
(* edge bbox[2] is the pen position after the last glyph.                  *)

Advance(fnt, c) == IF c = SP THEN fnt.size \div 4 ELSE fnt.size \div 2

RECURSIVE PenAdvance(_, _)
PenAdvance(fnt, s) ==
    IF s = <<>> THEN 0 ELSE Advance(fnt, Head(s)) + PenAdvance(fnt, Tail(s))

\* bbox[0] and bbox[2] of textbbox((0, 0), s, font=font)
TextBBox(fnt, s) ==
    [left  |-> IF s # <<>> /\ s[1] = "j" THEN 0 - fnt.lsb ELSE 0,
     right |-> PenAdvance(fnt, s)]

\* the width the code takes from a bbox: bbox[2] - bbox[0]
BBoxWidth(fnt, s) == TextBBox(fnt, s).right - TextBBox(fnt, s).left

-----------------------------------------------------------------------------
(* smart_wrap_text: one iteration of `for word in words`                   *)

\* width given to a word that opens a new line (image_utils.py line 63)
NewLineWidth(fnt, word) == TextBBox(fnt, word).right

WrapStep(st, word, fnt, maxw) ==
    LET word_with_space == IF st.current_line # <<>> THEN word \o <<SP>> ELSE word
        word_width == BBoxWidth(fnt, word_with_space)
    IN  IF st.current_line # <<>> /\ st.current_width + word_width > maxw
        THEN [lines         |-> Append(st.lines, Join(st.current_line)),
              current_line  |-> <<word>>,
              current_width |-> NewLineWidth(fnt, word)]
        ELSE [lines         |-> st.lines,
              current_line  |-> Append(st.current_line, word),
              current_width |-> st.current_width + word_width]

\* mutant: the words still in current_line are not returned
WrapFlushNone(st) == st.lines

\* after the loop: the last line is added if it contains words
WrapFlush(st) ==
    IF st.current_line # <<>> THEN Append(st.lines, Join(st.current_line))
    ELSE st.lines

WrapStart == [lines |-> <<>>, current_line |-> <<>>, current_width |-> 0]

RECURSIVE WrapFold(_, _, _, _)
WrapFold(st, ws, fnt, maxw) ==
    IF ws = <<>> THEN st
    ELSE WrapFold(WrapStep(st, Head(ws), fnt, maxw), Tail(ws), fnt, maxw)

\* smart_wrap_text(text, font, max_width, draw) as a function
SmartWrapText(txt, fnt, maxw) ==
    WrapFlush(WrapFold(WrapStart, Split(txt), fnt, maxw))

-----------------------------------------------------------------------------
(* add_text_to_image_old: safe margins (text_overlay.py lines 365-381,     *)
(* main.py lines 568-584).  int(x * 0.15) is (x * 15) \div 100 for every   *)
(* canvas size used here; int(height * 0.35) is (height * 35) \div 100 for *)
(* the heights in CanvasSizes.                                             *)

\* mutant: the detected border replaces the base margin instead of raising it
LeftMarginNoMax(w, fe, fbw) ==
    LET base == IF fe THEN (w * 15) \div 100 ELSE (w * 8) \div 100
    IN  IF fbw > 0 THEN fbw + 30 ELSE base

LeftMargin(w, fe, fbw) ==
    LET base == IF fe THEN (w * 15) \div 100 ELSE (w * 8) \div 100
    IN  IF fbw > 0 THEN Max2(base, fbw + 30) ELSE base

RightMargin(w, fe, fbw) ==
    LET base == IF fe THEN (w * 20) \div 100 ELSE (w * 10) \div 100
    IN  IF fbw > 0 THEN Max2(base, fbw + 50) ELSE base

BottomMargin(h, fe, fbw) ==
    LET base == IF fe THEN (h * 15) \div 100 ELSE (h * 8) \div 100
    IN  IF fbw > 0 THEN Max2(base, fbw + 30) ELSE base

TopMargin(h) == (h * 35) \div 100

\* max_text_width: the text box width, with the extra 40px safety margin
MaxTextWidth(w, fe, fbw) ==
    w - (LeftMargin(w, fe, fbw) + RightMargin(w, fe, fbw) + 40)

MaxTextHeight(h, fe, fbw) == h - TopMargin(h) - BottomMargin(h, fe, fbw)

\* the sizes of the source images given to the overlay: <<width, height>>
CanvasSizes == {<<400, 300>>, <<800, 600>>, <<1080, 1920>>}

\* the margin computation as a function of its four inputs
MarginInit ==
    /\ VideoIdle
    /\ SessionIdle
    /\ WorkIdle
    /\ DrawIdle
    /\ ShadowIdle
    /\ LogoIdle
    /\ ParIdle
    /\ CallIdle
    /\ WrapIdle
    /\ FitIdle
    /\ DetectIdle
    /\ SplitIdle
    /\ OverlayIdle
    /\ \E c \in CanvasSizes : width = c[1] /\ height = c[2]
    /\ frame_exists \in BOOLEAN
    /\ frame_border_width \in 0..MaxBorderWidth
    /\ left_margin = 0
    /\ right_margin = 0
    /\ bottom_margin = 0
    /\ top_margin = 0
    /\ max_text_width = 0
    /\ max_text_height = 0
    /\ margin_pc = "compute"

ComputeMargins ==
    /\ margin_pc = "compute"
    /\ detect_pc \in {"idle", "done"}
    /\ left_margin' = LeftMargin(width, frame_exists, frame_border_width)
    /\ right_margin' = RightMargin(width, frame_exists, frame_border_width)
    /\ bottom_margin' = BottomMargin(height, frame_exists, frame_border_width)
    /\ top_margin' = TopMargin(height)
    /\ max_text_width' = MaxTextWidth(width, frame_exists, frame_border_width)
    /\ max_text_height' = MaxTextHeight(height, frame_exists, frame_border_width)
    /\ margin_pc' = "done"
    /\ UNCHANGED <<width, height, frame_exists, frame_border_width>>
    /\ UNCHANGED <<wrapVars, fitVars, detectVars, splitVars,
                   overlayVars, callVars>>
    /\ UNCHANGED parVars
    /\ UNCHANGED logoVars
    /\ UNCHANGED shadowVars
    /\ UNCHANGED drawVars
    /\ UNCHANGED workVars
    /\ UNCHANGED sessionVars
    /\ UNCHANGED videoVars

MarginNext == ComputeMargins

SpecMargin == MarginInit /\ [][MarginNext]_vars

-----------------------------------------------------------------------------
(* C6: for a fixed canvas and frame presence the left, right and bottom    *)
(* margins do not decrease when frame_border_width grows, and the top      *)
(* margin does not depend on frame_border_width.                           *)

\* C6: margin monotonicity; the margins computed for this state's border
\* width are compared with those of every larger border width
C6_MarginMonotone ==
    margin_pc = "done" =>
        \A b \in frame_border_width..(MaxBorderWidth + 1) :
            /\ left_margin <= LeftMargin(width, frame_exists, b)
            /\ right_margin <= RightMargin(width, frame_exists, b)
            /\ bottom_margin <= BottomMargin(height, frame_exists, b)
            /\ top_margin = TopMargin(height)

\* C6 witness: margins computed for a framed canvas whose border width is
\* large enough to decide the left margin
C6_Witness ==
    /\ margin_pc = "done"
    /\ frame_exists
    /\ frame_border_width > 0
    /\ left_margin = frame_border_width + 30
    /\ left_margin > (width * 15) \div 100

-----------------------------------------------------------------------------
(* add_text_to_image_old: the font-fit loop (text_overlay.py lines         *)
(* 383-464).  font_env says which of the candidates load on this machine:  *)
(*   system  - one of system_font_names loads with ImageFont.truetype       *)
(*   bundled - "absent" | "ok" | "corrupt" (the file exists, truetype       *)
(*             raises)                                                      *)
(*   variant - ImageFont.load_default() has font_variant (a FreeType        *)
(*             default font); a bitmap default font raises on it            *)

min_font_size == 30

InitialFontSize(w) == Max2((w * 55) \div 1000, 46)

\* mutant: the size is reduced by 20%
ReduceFontSizeBy20(fs) == (fs * 8) \div 10

\* font_size = int(font_size * 0.9)
ReduceFontSize(fs) == (fs * 9) \div 10

\* ImageFont.truetype(name, size) and load_default().font_variant(size=size)
SizedFont(fs) == [size |-> fs, lsb |-> 0]

\* ImageFont.load_default(): a font of its own fixed size
PlainDefaultFont == [size |-> 10, lsb |-> 0]

\* lines 396-421 raise when the bundled file cannot be read or when the
\* default font has no font_variant
LoadRaises(env) ==
    /\ ~env.system
    /\ \/ env.bundled = "corrupt"
       \/ env.bundled = "absent" /\ ~env.variant

LoadedPath(env) ==
    IF env.system THEN "system"
    ELSE IF env.bundled = "ok" THEN "fonts/Leelawadee Bold.ttf"
    ELSE "Default font"

\* estimated_text_height <= max_text_height, in tenths of a pixel:
\* len(wrapped_lines) * font_size * 1.1 + font_size * 1.2
TextFits(nlines, fs, maxh) == nlines * fs * 11 + fs * 12 <= maxh * 10

\* the loop condition of line 394
FitLoopRuns(tl, fs, att) == tl /\ fs > min_font_size /\ att < 5

\* captions of n words of three letters
RECURSIVE Caption(_)
Caption(n) ==
    IF n = 0 THEN <<>>
    ELSE IF n = 1 THEN <<"a", "a", "a">>
    ELSE <<"a", "a", "a", SP>> \o Caption(n - 1)

FitTexts == {Caption(n) : n \in 0..MaxWords}

FontEnvs ==
    {[system |-> TRUE,  bundled |-> "absent",  variant |-> TRUE],
     [system |-> FALSE, bundled |-> "ok",      variant |-> TRUE],
     [system |-> FALSE, bundled |-> "corrupt", variant |-> TRUE],
     [system |-> FALSE, bundled |-> "absent",  variant |-> TRUE],
     [system |-> FALSE, bundled |-> "absent",  variant |-> FALSE]}

\* what the border detection leaves behind: no frame file, a frame without
\* samples, and the two results of a uniform 80px border
FrameStates == {<<FALSE, 0>>, <<TRUE, 60>>, <<TRUE, 100>>, <<TRUE, 105>>}

FitInit ==
    /\ VideoIdle
    /\ SessionIdle
    /\ WorkIdle
    /\ DrawIdle
    /\ ShadowIdle
    /\ LogoIdle
    /\ ParIdle
    /\ CallIdle
    /\ WrapIdle
    /\ DetectIdle
    /\ SplitIdle
    /\ OverlayIdle
    /\ \E c \in CanvasSizes : width = c[1] /\ height = c[2]
    /\ \E f \in FrameStates : frame_exists = f[1] /\ frame_border_width = f[2]
    /\ left_margin = 0
    /\ right_margin = 0
    /\ bottom_margin = 0
    /\ top_margin = 0
    /\ max_text_width = 0
    /\ max_text_height = 0
    /\ margin_pc = "compute"
    /\ text \in FitTexts
    /\ font_env \in FontEnvs
    /\ initial_font_size = 0
    /\ font_size = 0
    /\ font = NoFont
    /\ text_too_large = FALSE
    /\ attempt = 0
    /\ wrapped_lines = <<>>
    /\ final_font_path = "None"
    /\ final_lines = <<>>
    /\ fit_pc = "start"

\* lines 383-392
FitStart ==
    /\ margin_pc = "done"
    /\ fit_pc = "start"
    /\ initial_font_size' = InitialFontSize(width)
    /\ font_size' = InitialFontSize(width)
    /\ font' = NoFont
    /\ text_too_large' = TRUE
    /\ attempt' = 0
    /\ final_font_path' = "None"
    /\ fit_pc' = "loop"
    /\ UNCHANGED <<text, font_env, wrapped_lines, final_lines>>
    /\ UNCHANGED <<wrapVars, marginVars, detectVars, splitVars,
                   overlayVars, callVars>>
    /\ UNCHANGED parVars
    /\ UNCHANGED logoVars
    /\ UNCHANGED shadowVars
    /\ UNCHANGED drawVars
    /\ UNCHANGED workVars
    /\ UNCHANGED sessionVars
    /\ UNCHANGED videoVars

\* one iteration of the while loop of line 394, the except branch included
FitAttempt ==
    /\ fit_pc = "loop"
    /\ FitLoopRuns(text_too_large, font_size, attempt)
    /\ attempt' = attempt + 1
    /\ IF LoadRaises(font_env)
       THEN /\ IF font_env.variant
               THEN /\ font_size' = ReduceFontSize(font_size)
                    /\ font' = SizedFont(ReduceFontSize(font_size))
                    /\ final_font_path' = "Default font"
               ELSE /\ font_size' = 20
                    /\ font' = PlainDefaultFont
                    /\ final_font_path' = "Default font (Minimal)"
            /\ UNCHANGED <<text_too_large, wrapped_lines>>
       ELSE LET f == SizedFont(font_size)
                wl == SmartWrapText(text, f, max_text_width)
            IN  /\ font' = f
                /\ final_font_path' = LoadedPath(font_env)
                /\ wrapped_lines' = wl
                /\ IF TextFits(Len(wl), font_size, max_text_height)
                   THEN /\ text_too_large' = FALSE
                        /\ font_size' = font_size
                   ELSE /\ text_too_large' = TRUE
                        /\ font_size' = ReduceFontSize(font_size)
    /\ UNCHANGED <<text, font_env, initial_font_size, final_lines, fit_pc>>
    /\ UNCHANGED <<wrapVars, marginVars, detectVars, splitVars,
                   overlayVars, callVars>>
    /\ UNCHANGED parVars
    /\ UNCHANGED logoVars
    /\ UNCHANGED shadowVars
    /\ UNCHANGED drawVars
    /\ UNCHANGED workVars
    /\ UNCHANGED sessionVars
    /\ UNCHANGED videoVars

\* the loop is left; lines 453-458
FitExit ==
    /\ fit_pc = "loop"
    /\ ~FitLoopRuns(text_too_large, font_size, attempt)
    /\ IF font = NoFont
       THEN /\ font' = PlainDefaultFont
            /\ final_font_path' = "Pillow Default (Final Fallback)"
            /\ font_size' = 20
       ELSE UNCHANGED <<font, final_font_path, font_size>>
    /\ fit_pc' = "fitted"
    /\ UNCHANGED <<text, font_env, initial_font_size, text_too_large, attempt,
                   wrapped_lines, final_lines>>
    /\ UNCHANGED <<wrapVars, marginVars, detectVars, splitVars,
                   overlayVars, callVars>>
    /\ UNCHANGED parVars
    /\ UNCHANGED logoVars
    /\ UNCHANGED shadowVars
    /\ UNCHANGED drawVars
    /\ UNCHANGED workVars
    /\ UNCHANGED sessionVars
    /\ UNCHANGED videoVars

\* line 464
FinalWrap ==
    /\ fit_pc = "fitted"
    /\ final_lines' = SmartWrapText(text, font, max_text_width)
    /\ fit_pc' = "wrapped"
    /\ UNCHANGED <<text, font_env, initial_font_size, font_size, font,
                   text_too_large, attempt, wrapped_lines, final_font_path>>
    /\ UNCHANGED <<wrapVars, marginVars, detectVars, splitVars,
                   overlayVars, callVars>>
    /\ UNCHANGED parVars
    /\ UNCHANGED logoVars
    /\ UNCHANGED shadowVars
    /\ UNCHANGED drawVars
    /\ UNCHANGED workVars
    /\ UNCHANGED sessionVars
    /\ UNCHANGED videoVars

FitNext == ComputeMargins \/ FitStart \/ FitAttempt \/ FitExit \/ FinalWrap

SpecFit == FitInit /\ [][FitNext]_vars

-----------------------------------------------------------------------------
(* C2: the font-fit loop ends after at most 5 attempts and leaves a font   *)
(* size between min_font_size (30) and initial_font_size.                  *)

\* C2: fit termination and size range, for every canvas and caption; stated
\* for the machines on which a font loads at every attempt, so that the
\* sizes are those of the 10% reductions alone (where loading raises, the
\* except branch of lines 447-451 sets font_size to 20)
C2_FitTerminatesInRange ==
    ~LoadRaises(font_env) =>
        /\ attempt <= 5
        /\ fit_pc \in {"fitted", "wrapped"} =>
               /\ min_font_size <= font_size
               /\ font_size <= initial_font_size

-----------------------------------------------------------------------------
(* add_text_to_image_old: frame-border detection (text_overlay.py lines    *)
(* 241-312).  A frame image is [fw, fh, l, r, t, b]: fw x fh pixels, fully *)
(* opaque (alpha 255) within l, r, t, b pixels of its left, right, top and *)
(* bottom edge and fully transparent (alpha 0) elsewhere.                  *)

FrameImage(fw, fh, l, r, t, b) ==
    [exists |-> TRUE, readable |-> TRUE, fw |-> fw, fh |-> fh,
     l |-> l, r |-> r, t |-> t, b |-> b]

\* a file that exists and that Image.open cannot decode
CorruptFile == [NoFile EXCEPT !.exists = TRUE]

\* frame_rgba.getpixel((x, y))[3]
Alpha(f, x, y) ==
    IF x < f.l \/ x >= f.fw - f.r \/ y < f.t \/ y >= f.fh - f.b THEN 255 ELSE 0

RECURSIVE RangeUp(_, _, _)
\* list(range(a, stop, step)), step > 0
RangeUp(a, stop, step) ==
    IF a >= stop THEN <<>> ELSE <<a>> \o RangeUp(a + step, stop, step)

\* the four lists of edge_points (lines 256-261), concatenated
EdgePoints(w, h) ==
    LET xs == RangeUp(0, w, w \div 10)
        ys == RangeUp(0, h, h \div 10)
    IN  [k \in 1..Len(xs) |-> <<xs[k], 5>>]
        \o [k \in 1..Len(xs) |-> <<xs[k], h - 5>>]
        \o [k \in 1..Len(ys) |-> <<5, ys[k]>>]
        \o [k \in 1..Len(ys) |-> <<w - 5, ys[k]>>]

RECURSIVE ScanInward(_, _, _, _, _)
\* for i in range(20, 150, 5): if i >= size: break;
\*     if alpha at distance i < 100: border_samples.append(i); break
\* along = "x": pixel (i, fixed); along = "y": pixel (fixed, i)
ScanInward(f, along, fixed, size, i) ==
    IF i >= 150 \/ i >= size THEN <<>>
    ELSE IF (IF along = "x" THEN Alpha(f, i, fixed) ELSE Alpha(f, fixed, i)) < 100
         THEN <<i>>
         ELSE ScanInward(f, along, fixed, size, i + 5)

RECURSIVE ScanBackward(_, _, _, _, _)
\* for i in range(extent - 20, extent - 150, -5): if i < 0: break;
\*     if alpha at i < 100: border_samples.append(extent - i); break
ScanBackward(f, along, fixed, extent, i) ==
    IF i <= extent - 150 \/ i < 0 THEN <<>>
    ELSE IF (IF along = "x" THEN Alpha(f, i, fixed) ELSE Alpha(f, fixed, i)) < 100
         THEN <<extent - i>>
         ELSE ScanBackward(f, along, fixed, extent, i - 5)

\* the samples one edge point adds (lines 266-301)
PointSamples(f, w, h, pt) ==
    LET x == pt[1]
        y == pt[2]
    IN  IF ~(x < f.fw /\ y < f.fh) THEN <<>>
        ELSE IF ~(Alpha(f, x, y) > 100) THEN <<>>
        ELSE IF x <= 5 THEN ScanInward(f, "x", y, f.fw, 20)
        ELSE IF x >= w - 5 THEN ScanBackward(f, "x", y, w, w - 20)
        ELSE IF y <= 5 THEN ScanInward(f, "y", x, f.fh, 20)
        ELSE IF y >= h - 5 THEN ScanBackward(f, "y", x, h, h - 20)
        ELSE <<>>

RECURSIVE InsertSorted(_, _)
InsertSorted(v, srt) ==
    IF srt = <<>> THEN <<v>>
    ELSE IF v <= Head(srt) THEN <<v>> \o srt
    ELSE <<Head(srt)>> \o InsertSorted(v, Tail(srt))

RECURSIVE SortSamples(_)
\* border_samples.sort()
SortSamples(q) == IF q = <<>> THEN <<>> ELSE InsertSorted(Head(q), SortSamples(Tail(q)))

\* mutant: the median is taken without sorting the samples
UnsortedBorderWidth(samples) ==
    IF samples # <<>> THEN samples[Len(samples) \div 2 + 1] + 20 ELSE 60

\* mutant: the safety margin is added twice
DoubleMarginBorderWidth(samples) ==
    IF samples # <<>> THEN SortSamples(samples)[Len(samples) \div 2 + 1] + 40 ELSE 60

\* lines 303-310: the median plus the safety margin, or the default
DetectedBorderWidth(samples) ==
    IF samples # <<>> THEN SortSamples(samples)[Len(samples) \div 2 + 1] + 20 ELSE 60

\* the frame files found on disk for a canvas of w x h pixels; the last set
\* holds the frames with the same border on the four edges
FrameFiles(w, h) ==
    {NoFile,
     CorruptFile,
     FrameImage(w, h, 80, 80, 80, 80),
     FrameImage(w, h, 40, 40, 40, 40),
     FrameImage(w, h, 30, 30, 30, 120),
     FrameImage(w, h, 0, 0, 0, 0),
     FrameImage(w, h, w, w, h, h),
     FrameImage(w \div 2, h \div 2, 80, 80, 80, 80)}
    \cup {FrameImage(w, h, k, k, k, k) : k \in 1..(Min2(w, h) \div 2)}

\* the canvases of the detection runs: the usual ones and two whose frame of
\* 80 pixels leaves an interior of 1 x 1 and of 10 x 173 pixels
DetectCanvasSizes == CanvasSizes \cup {<<161, 161>>, <<170, 333>>}

DetectInit ==
    /\ VideoIdle
    /\ SessionIdle
    /\ WorkIdle
    /\ DrawIdle
    /\ ShadowIdle
    /\ LogoIdle
    /\ ParIdle
    /\ CallIdle
    /\ WrapIdle
    /\ FitIdle
    /\ SplitIdle
    /\ OverlayIdle
    /\ \E c \in DetectCanvasSizes :
         /\ width = c[1]
         /\ height = c[2]
         /\ custom_frame_file \in FrameFiles(c[1], c[2])
         /\ local_frame_file \in {NoFile, FrameImage(c[1], c[2], 80, 80, 80, 80)}
    /\ frame_exists = FALSE
    /\ frame_border_width = 0
    /\ left_margin = 0
    /\ right_margin = 0
    /\ bottom_margin = 0
    /\ top_margin = 0
    /\ max_text_width = 0
    /\ max_text_height = 0
    /\ margin_pc = "compute"
    /\ frame_rgba = NoFile
    /\ edge_points = <<>>
    /\ point_i = 1
    /\ border_samples = <<>>
    /\ detect_pc = "start"

\* lines 241-261: look for the frame file, open it, list the edge points
DetectStart ==
    /\ detect_pc = "start"
    /\ LET file == IF custom_frame_file.exists THEN custom_frame_file
                   ELSE local_frame_file
       IN  IF ~file.exists
           THEN /\ frame_exists' = FALSE
                /\ frame_border_width' = 0
                /\ detect_pc' = "done"
                /\ UNCHANGED <<frame_rgba, edge_points>>
           ELSE /\ frame_exists' = TRUE
                /\ frame_border_width' = 0
                /\ IF ~file.readable \/ width \div 10 = 0 \/ height \div 10 = 0
                   THEN /\ detect_pc' = "raised"
                        /\ UNCHANGED <<frame_rgba, edge_points>>
                   ELSE /\ frame_rgba' = file
                        /\ edge_points' = EdgePoints(width, height)
                        /\ detect_pc' = "sample"
    /\ point_i' = 1
    /\ border_samples' = <<>>
    /\ UNCHANGED <<custom_frame_file, local_frame_file, width, height,
                   left_margin, right_margin, bottom_margin, top_margin,
                   max_text_width, max_text_height, margin_pc>>
    /\ UNCHANGED <<wrapVars, fitVars, splitVars, overlayVars, callVars>>
    /\ UNCHANGED parVars
    /\ UNCHANGED logoVars
    /\ UNCHANGED shadowVars
    /\ UNCHANGED drawVars
    /\ UNCHANGED workVars
    /\ UNCHANGED sessionVars
    /\ UNCHANGED videoVars

\* lines 264-301: one edge point
DetectSample ==
    /\ detect_pc = "sample"
    /\ point_i <= Len(edge_points)
    /\ border_samples' = border_samples
           \o PointSamples(frame_rgba, width, height, edge_points[point_i])
    /\ point_i' = point_i + 1
    /\ UNCHANGED <<custom_frame_file, local_frame_file, frame_rgba, edge_points,
                   detect_pc>>
    /\ UNCHANGED <<wrapVars, fitVars, marginVars, splitVars,
                   overlayVars, callVars>>
    /\ UNCHANGED parVars
    /\ UNCHANGED logoVars
    /\ UNCHANGED shadowVars
    /\ UNCHANGED drawVars
    /\ UNCHANGED workVars
    /\ UNCHANGED sessionVars
    /\ UNCHANGED videoVars

\* lines 303-312
DetectFinish ==
    /\ detect_pc = "sample"
    /\ point_i > Len(edge_points)
    /\ frame_border_width' = DetectedBorderWidth(border_samples)
    /\ border_samples' = SortSamples(border_samples)
    /\ detect_pc' = "done"
    /\ UNCHANGED <<custom_frame_file, local_frame_file, frame_rgba, edge_points,
                   point_i>>
    /\ UNCHANGED <<width, height, frame_exists, left_margin, right_margin,
                   bottom_margin, top_margin, max_text_width, max_text_height,
                   margin_pc>>
    /\ UNCHANGED <<wrapVars, fitVars, splitVars, overlayVars, callVars>>
    /\ UNCHANGED parVars
    /\ UNCHANGED logoVars
    /\ UNCHANGED shadowVars
    /\ UNCHANGED drawVars
    /\ UNCHANGED workVars
    /\ UNCHANGED sessionVars
    /\ UNCHANGED videoVars

DetectNext == DetectStart \/ DetectSample \/ DetectFinish \/ ComputeMargins

SpecDetect == DetectInit /\ [][DetectNext]_vars

-----------------------------------------------------------------------------
(* C8: a canvas-sized frame with a fully opaque border of exactly 80px on  *)
(* all four sides and a transparent interior is detected as a border width *)
(* between 90 and 110.                                                     *)

Uniform80(f, w, h) == f = FrameImage(w, h, 80, 80, 80, 80)

\* C8: uniform-border detection
C8_Uniform80Detected ==
    detect_pc = "done" /\ Uniform80(frame_rgba, width, height) =>
        90 <= frame_border_width /\ frame_border_width <= 110

\* C8 witness: the detection has run on a uniform 80px frame of the usual
\* 1080x1920 canvas and both kinds of sample (80 from the top and left scans,
\* 85 from the bottom and right scans) were collected
C8_Witness ==
    /\ detect_pc = "done"
    /\ Uniform80(frame_rgba, width, height)
    /\ width = 1080
    /\ \E i, j \in 1..Len(border_samples) :
          border_samples[i] = 80 /\ border_samples[j] = 85
    /\ frame_border_width = 105

-----------------------------------------------------------------------------
(* C9: the detector returns the median of the collected samples plus 20    *)
(* when there is a sample, 60 when a frame file exists and no sample was   *)
(* collected, and 0 when no frame file exists.                             *)

\* v is the element at index len // 2 of the samples in ascending order
IsMedian(v, samples) ==
    LET k == Len(samples) \div 2
        idx == 1..Len(samples)
    IN  /\ \E i \in idx : samples[i] = v
        /\ Cardinality({i \in idx : samples[i] < v}) <= k
        /\ Cardinality({i \in idx : samples[i] <= v}) > k

\* the samples collected from the edge points, in the order of collection
RECURSIVE SamplesOf(_, _, _, _)
SamplesOf(f, w, h, pts) ==
    IF pts = <<>> THEN <<>>
    ELSE PointSamples(f, w, h, Head(pts)) \o SamplesOf(f, w, h, Tail(pts))

\* C9: detector result definition
C9_DetectorResult ==
    detect_pc = "done" =>
        LET anyFile == custom_frame_file.exists \/ local_frame_file.exists
            collected == SamplesOf(frame_rgba, width, height, edge_points)
        IN  /\ ~anyFile => frame_border_width = 0 /\ ~frame_exists
            /\ anyFile /\ collected = <<>> => frame_border_width = 60
            /\ anyFile /\ collected # <<>> =>
                   IsMedian(frame_border_width - 20, collected)
            /\ anyFile => frame_exists

\* C9 witness: a detection that collected samples of different values, so
\* that the median is not simply the only value
C9_Witness ==
    /\ detect_pc = "done"
    /\ \E i, j \in 1..Len(border_samples) : border_samples[i] # border_samples[j]
    /\ frame_border_width = border_samples[Len(border_samples) \div 2 + 1] + 20

-----------------------------------------------------------------------------
(* add_text_to_image_old: keyword detection and quote removal              *)
(* (text_overlay.py lines 466-495).  Indices are 0-based as in Python.     *)

QT == "\""

BS == "\\"

\* s[a:b]
Slice(s, a, b) == SubSeq(s, a + 1, b)

\* s.find(w, start)
Find(s, w, start) ==
    LET at == {i \in start..(Len(s) - Len(w)) : Slice(s, i, i + Len(w)) = w}
    IN  IF at = {} THEN -1 ELSE CHOOSE i \in at : \A j \in at : i <= j

RECURSIVE BackslashRun(_, _)
\* the number of backslashes of s from index p on
BackslashRun(s, p) ==
    IF p < Len(s) /\ s[p + 1] = BS THEN 1 + BackslashRun(s, p + 1) ELSE 0

\* green_words_pattern matched at index p (line 471).  The first alternative
\* is "([^"]+)"; the second, \\+"([^"]+)\\+", lets the greedy group give back
\* exactly one backslash; the third matches nothing the second does not.
MatchQuoted(s, p) ==
    LET none == [ok |-> FALSE, word |-> <<>>, end |-> p]
    IN  IF s[p + 1] = QT
        THEN LET q == Find(s, <<QT>>, p + 1)
             IN  IF q > p + 1
                 THEN [ok |-> TRUE, word |-> Slice(s, p + 1, q), end |-> q + 1]
                 ELSE none
        ELSE IF s[p + 1] = BS
        THEN LET o == p + BackslashRun(s, p)
                 q == IF o < Len(s) /\ s[o + 1] = QT
                      THEN Find(s, <<QT>>, o + 1) ELSE -1
             IN  IF q - (o + 1) >= 2 /\ s[q] = BS
                 THEN [ok |-> TRUE, word |-> Slice(s, o + 1, q - 1), end |-> q + 1]
                 ELSE none
        ELSE none

RECURSIVE FindAllQuoted(_, _)
\* re.findall(green_words_pattern, text), reduced to the group that matched
\* (lines 473-483)
FindAllQuoted(s, pos) ==
    IF pos >= Len(s) THEN <<>>
    ELSE LET mt == MatchQuoted(s, pos)
         IN  IF mt.ok THEN <<mt.word>> \o FindAllQuoted(s, mt.end)
             ELSE FindAllQuoted(s, pos + 1)

BAR == "|"

RECURSIVE Alternatives(_)
\* the branches of a pattern that holds the keyword as it stands (lines
\* 494-495 build the pattern with an f-string): a "|" of the keyword is the
\* alternation of the pattern; the other characters of the captions stand
\* for themselves
Alternatives(pat) ==
    LET i == Find(pat, <<BAR>>, 0)
    IN  IF i = -1 THEN <<pat>>
        ELSE <<Slice(pat, 0, i)>> \o Alternatives(Slice(pat, i + 1, Len(pat)))

\* the index after an optional quote ("?) at index p
OptQuote(s, p) == IF p < Len(s) /\ s[p + 1] = QT THEN p + 1 ELSE p

\* the end of a match at index p of one branch, or -1: the literal alt, after
\* \\"? when pre, before \\"? when post
AltEnd(s, p, alt, pre, post) ==
    LET a == IF ~pre THEN p
             ELSE IF p < Len(s) /\ s[p + 1] = BS THEN OptQuote(s, p + 1)
             ELSE -1
        b == IF a # -1 /\ a + Len(alt) <= Len(s)
                /\ Slice(s, a, a + Len(alt)) = alt
             THEN a + Len(alt) ELSE -1
    IN  IF b = -1 \/ ~post THEN b
        ELSE IF b < Len(s) /\ s[b + 1] = BS THEN OptQuote(s, b + 1)
        ELSE -1

RECURSIVE FirstAlt(_, _, _, _, _)
\* the end of the first branch from the k-th on that matches at index p, or
\* -1; esc: the first branch starts with \\"? and the last ends with it
FirstAlt(s, p, alts, k, esc) ==
    IF k > Len(alts) THEN -1
    ELSE LET e == AltEnd(s, p, alts[k], esc /\ k = 1, esc /\ k = Len(alts))
         IN  IF e # -1 THEN e ELSE FirstAlt(s, p, alts, k + 1, esc)

RECURSIVE SubQuoted(_, _, _)
\* re.sub(f'"{word}"', word, s) from index pos on (line 494); no branch of
\* the pattern is empty
SubQuoted(s, word, pos) ==
    LET e == FirstAlt(s, pos, Alternatives(<<QT>> \o word \o <<QT>>), 1, FALSE)
    IN  IF pos >= Len(s) THEN <<>>
        ELSE IF e # -1 THEN word \o SubQuoted(s, word, e)
        ELSE <<s[pos + 1]>> \o SubQuoted(s, word, pos + 1)

\* the end of a match of \\"?{word}\\"? at index p, or -1 (line 495)
MatchEscaped(s, word, p) == FirstAlt(s, p, Alternatives(word), 1, TRUE)

RECURSIVE SubEscaped(_, _, _)
\* re.sub(f'\\\\"?{word}\\\\"?', word, s) from index pos on
SubEscaped(s, word, pos) ==
    IF pos >= Len(s) THEN <<>>
    ELSE LET e == MatchEscaped(s, word, pos)
         IN  IF e # -1 THEN word \o SubEscaped(s, word, e)
             ELSE <<s[pos + 1]>> \o SubEscaped(s, word, pos + 1)

RECURSIVE TrailingBackslashes(_)
\* the number of backslashes at the end of w
TrailingBackslashes(w) ==
    IF w # <<>> /\ w[Len(w)] = BS
    THEN 1 + TrailingBackslashes(SubSeq(w, 1, Len(w) - 1))
    ELSE 0

\* re.sub(pattern, word, ...) raises re.error (bad escape) for a replacement
\* that ends with an unpaired backslash; the keywords of the captions have
\* backslashes nowhere else, and at most one at the end
SubRaises(gw) ==
    \E i \in 1..Len(gw) : TrailingBackslashes(gw[i]) % 2 = 1

RECURSIVE DisplayText(_, _)
\* lines 489-495: the quotes around every keyword are removed, keyword by
\* keyword
DisplayText(s, gw) ==
    IF gw = <<>> THEN s
    ELSE DisplayText(SubEscaped(SubQuoted(s, Head(gw), 0), Head(gw), 0), Tail(gw))

-----------------------------------------------------------------------------
(* add_text_to_image_old: the per-line run splitter (lines 571-593 and     *)
(* 652-673).  st is [parts, last_end].                                     *)

Run(t, color) == [text |-> t, color |-> color]

RECURSIVE SplitOccurrences(_, _, _, _)
\* the while loop over the occurrences of one keyword
SplitOccurrences(line, word, st, word_index) ==
    IF word_index = -1 THEN st
    ELSE LET before == IF word_index > st.last_end
                       THEN Append(st.parts,
                                   Run(Slice(line, st.last_end, word_index), "white"))
                       ELSE st.parts
             nxt == [parts    |-> Append(before, Run(word, "green")),
                     last_end |-> word_index + Len(word)]
         IN  SplitOccurrences(line, word, nxt, Find(line, word, nxt.last_end))

RECURSIVE SplitKeywords(_, _, _)
\* for word in green_words: word_index = line.find(word); while ...
SplitKeywords(line, gw, st) ==
    IF gw = <<>> THEN st
    ELSE SplitKeywords(line, Tail(gw),
                       SplitOccurrences(line, Head(gw), st, Find(line, Head(gw), 0)))

\* mutant: the new layer is composited under the layers already applied
PrependLayer(ls, name) == <<name>> \o ls

\* a drawing or compositing step is added to the record of the layers; the
\* lines of the text are one layer
AddLayer(ls, name) ==
    IF ls # <<>> /\ ls[Len(ls)] = name /\ name = "text" THEN ls ELSE Append(ls, name)

\* the parts list of one line
SplitParts(line, gw) ==
    LET st == SplitKeywords(line, gw, [parts |-> <<>>, last_end |-> 0])
    IN  IF st.last_end < Len(line)
        THEN Append(st.parts, Run(Slice(line, st.last_end, Len(line)), "white"))
        ELSE st.parts

\* a line without highlights is drawn whole; a sub-line that is still too
\* wide is cut to nine tenths of its length and "..." (lines 621-623)
PlainParts(line, fnt, maxw, sub) ==
    IF sub /\ PenAdvance(fnt, line) > maxw
    THEN <<Run(Slice(line, 0, (Len(line) * 9) \div 10) \o <<".", ".", ".">>, "white")>>
    ELSE <<Run(line, "white")>>

\* one draw.text call: the part, its place in the parts of line ln, the
\* position (x in pixels, y in tenths of a pixel) and the measured width
Drawn(part, k, ln, x, y, w) ==
    [text |-> part.text, color |-> part.color, k |-> k, line |-> ln,
     x |-> x, y |-> y, w |-> w]

RECURSIVE DrawSkip(_, _, _, _, _, _, _)
\* mutant: a part that would pass the right margin is left out and the loop
\* goes on with the next part
DrawSkip(ps, k, fnt, x, limit, y, ln) ==
    IF k > Len(ps) THEN <<>>
    ELSE LET part_width == BBoxWidth(fnt, ps[k].text)
         IN  IF x + part_width > limit
             THEN DrawSkip(ps, k + 1, fnt, x, limit, y, ln)
             ELSE <<Drawn(ps[k], k, ln, x, y, part_width)>>
                  \o DrawSkip(ps, k + 1, fnt, x + part_width, limit, y, ln)

RECURSIVE DrawLoop(_, _, _, _, _, _, _)
\* lines 593-615 and 673-695: the parts are drawn from current_x = text_x; the
\* loop is left at the first part that would pass the right margin
DrawLoop(ps, k, fnt, x, limit, y, ln) ==
    IF k > Len(ps) THEN <<>>
    ELSE LET part_width == BBoxWidth(fnt, ps[k].text)
         IN  IF x + part_width > limit THEN <<>>
             ELSE <<Drawn(ps[k], k, ln, x, y, part_width)>>
                  \o DrawLoop(ps, k + 1, fnt, x + part_width, limit, y, ln)

\* lines 625-635 and 703-711: a line without highlights is one draw.text
\* call at text_x
DrawPlain(ps, fnt, x, y, ln) ==
    <<Drawn(ps[1], 1, ln, x, y, BBoxWidth(fnt, ps[1].text))>>

\* text_y of lines 502-510, in tenths of a pixel
TextY(nlines, fs, h, top, bottom) ==
    LET total == nlines * fs * 11
        centred == top * 10 + (((h - top - bottom) * 10 - total) \div 20) * 10
    IN  Min2(Max2(centred, top * 10), (h - bottom) * 10 - total)

\* the captions: up to MaxCaptionLen characters
CaptionChars == {"a", "b", SP, QT}

\* the display font and the text box of the splitter runs: letters of 2
\* pixels and spaces of 1, boxes of 4 and 20 pixels
SplitFont == [size |-> 4, lsb |-> 0]

SplitWidths == {4, 20}

SplitInit ==
    /\ VideoIdle
    /\ SessionIdle
    /\ WorkIdle
    /\ DrawIdle
    /\ ShadowIdle
    /\ LogoIdle
    /\ ParIdle
    /\ CallIdle
    /\ WrapIdle
    /\ DetectIdle
    /\ OverlayIdle
    /\ text \in SeqsUpTo(CaptionChars, MaxCaptionLen)
    /\ font = SplitFont
    /\ font_size = SplitFont.size
    /\ initial_font_size = SplitFont.size
    /\ font_env = [system |-> TRUE, bundled |-> "absent", variant |-> TRUE]
    /\ text_too_large = FALSE
    /\ attempt = 1
    /\ max_text_width \in SplitWidths
    /\ wrapped_lines = SmartWrapText(text, font, max_text_width)
    /\ final_lines = SmartWrapText(text, font, max_text_width)
    /\ final_font_path = "system"
    /\ fit_pc = "wrapped"
    /\ width = max_text_width + 10
    /\ height = 40
    /\ frame_exists = FALSE
    /\ frame_border_width = 0
    /\ left_margin = 2
    /\ right_margin = 8
    /\ bottom_margin = BottomMargin(40, FALSE, 0)
    /\ top_margin = TopMargin(40)
    /\ max_text_height = MaxTextHeight(40, FALSE, 0)
    /\ margin_pc = "done"
    /\ green_words = <<>>
    /\ has_highlights = FALSE
    /\ display_text = <<>>
    /\ display_lines = <<>>
    /\ line_i = 1
    /\ in_sub = FALSE
    /\ sub_lines = <<>>
    /\ sub_i = 1
    /\ cur_line = <<>>
    /\ parts = <<>>
    /\ line_y = 0
    /\ split_pc = "keywords"

\* lines 470-495
DetectKeywords ==
    /\ fit_pc = "wrapped"
    /\ split_pc = "keywords"
    /\ LET gw == FindAllQuoted(text, 0)
       IN  /\ green_words' = gw
           /\ has_highlights' = (Len(gw) > 0)
           /\ IF SubRaises(gw)
              THEN /\ display_text' = text
                   /\ split_pc' = "raised"
                   /\ old_pc' = IF old_pc = "idle" THEN "idle" ELSE "raised"
              ELSE /\ display_text' = DisplayText(text, gw)
                   /\ split_pc' = "wrap"
                   /\ UNCHANGED old_pc
    /\ UNCHANGED layers
    /\ UNCHANGED <<display_lines, line_i, in_sub, sub_lines, sub_i, cur_line,
                   parts, line_y>>
    /\ UNCHANGED <<wrapVars, marginVars, fitVars, detectVars, overlayVars>>
    /\ UNCHANGED parVars
    /\ UNCHANGED logoVars
    /\ UNCHANGED shadowVars
    /\ UNCHANGED drawVars
    /\ UNCHANGED workVars
    /\ UNCHANGED sessionVars
    /\ UNCHANGED videoVars

\* lines 497-547: text_y and the wrapping of the display text
WrapDisplay ==
    /\ split_pc = "wrap"
    /\ display_lines' = SmartWrapText(display_text, font, max_text_width)
    /\ line_y' = TextY(Len(final_lines), font_size, height, top_margin,
                       bottom_margin)
    /\ line_i' = 1
    /\ split_pc' = "lines"
    /\ UNCHANGED <<green_words, has_highlights, display_text, in_sub, sub_lines,
                   sub_i, cur_line, parts>>
    /\ UNCHANGED <<wrapVars, marginVars, fitVars, detectVars, overlayVars>>
    /\ layers' = AddLayer(layers, "panel")
    /\ UNCHANGED old_pc
    /\ UNCHANGED parVars
    /\ UNCHANGED logoVars
    /\ UNCHANGED shadowVars
    /\ UNCHANGED drawVars
    /\ UNCHANGED workVars
    /\ UNCHANGED sessionVars
    /\ UNCHANGED videoVars

\* lines 549-553: the next display line, wrapped again when it is too wide
BeginLine ==
    /\ split_pc = "lines"
    /\ line_i <= Len(display_lines)
    /\ LET line == display_lines[line_i]
       IN  IF PenAdvance(font, line) > max_text_width
           THEN /\ in_sub' = TRUE
                /\ sub_lines' = SmartWrapText(line, font, max_text_width)
           ELSE /\ in_sub' = FALSE
                /\ sub_lines' = <<line>>
    /\ sub_i' = 1
    /\ split_pc' = "runs"
    /\ UNCHANGED <<green_words, has_highlights, display_text, display_lines,
                   line_i, cur_line, parts, line_y>>
    /\ UNCHANGED <<wrapVars, marginVars, fitVars, detectVars,
                   overlayVars, callVars>>
    /\ UNCHANGED parVars
    /\ UNCHANGED logoVars
    /\ UNCHANGED shadowVars
    /\ UNCHANGED drawVars
    /\ UNCHANGED workVars
    /\ UNCHANGED sessionVars
    /\ UNCHANGED videoVars

\* lines 555-640 and 644-716: the runs of one line or sub-line, the advance
\* of line_y and the safety break (which leaves only the sub-line loop when
\* it happens there)
SplitRuns ==
    /\ split_pc = "runs"
    /\ sub_i <= Len(sub_lines)
    /\ LET line == sub_lines[sub_i]
           y == line_y + font_size * 11
           stop == y > (height - bottom_margin) * 10
       IN  /\ cur_line' = line
           /\ parts' = IF has_highlights THEN SplitParts(line, green_words)
                       ELSE PlainParts(line, font, max_text_width, in_sub)
           /\ line_y' = y
           /\ IF stop /\ ~in_sub
              THEN /\ split_pc' = "done"
                   /\ UNCHANGED <<line_i, sub_i>>
              ELSE IF stop \/ sub_i = Len(sub_lines)
              THEN /\ split_pc' = "lines"
                   /\ line_i' = line_i + 1
                   /\ UNCHANGED sub_i
              ELSE /\ sub_i' = sub_i + 1
                   /\ UNCHANGED <<line_i, split_pc>>
    /\ UNCHANGED <<green_words, has_highlights, display_text, display_lines,
                   in_sub, sub_lines>>
    /\ UNCHANGED <<wrapVars, marginVars, fitVars, detectVars, overlayVars>>
    /\ layers' = AddLayer(layers, "text")
    /\ UNCHANGED old_pc
    /\ UNCHANGED parVars
    /\ UNCHANGED logoVars
    /\ UNCHANGED shadowVars
    /\ drawn_parts' = drawn_parts \o
           (IF has_highlights
            THEN DrawLoop(parts', 1, font, left_margin, width - right_margin,
                          line_y, <<line_i, sub_i>>)
            ELSE DrawPlain(parts', font, left_margin, line_y,
                           <<line_i, sub_i>>))
    /\ UNCHANGED workVars
    /\ UNCHANGED sessionVars
    /\ UNCHANGED videoVars

\* the loop over display_lines is exhausted
SplitDone ==
    /\ split_pc = "lines"
    /\ line_i > Len(display_lines)
    /\ split_pc' = "done"
    /\ UNCHANGED <<green_words, has_highlights, display_text, display_lines,
                   line_i, in_sub, sub_lines, sub_i, cur_line, parts, line_y>>
    /\ UNCHANGED <<wrapVars, marginVars, fitVars, detectVars,
                   overlayVars, callVars>>
    /\ UNCHANGED parVars
    /\ UNCHANGED logoVars
    /\ UNCHANGED shadowVars
    /\ UNCHANGED drawVars
    /\ UNCHANGED workVars
    /\ UNCHANGED sessionVars
    /\ UNCHANGED videoVars

SplitNext == DetectKeywords \/ WrapDisplay \/ BeginLine \/ SplitRuns \/ SplitDone

SpecSplit == SplitInit /\ [][SplitNext]_vars

\* the texts of the runs, joined
RECURSIVE RunTexts(_)
RunTexts(ps) == IF ps = <<>> THEN <<>> ELSE Head(ps).text \o RunTexts(Tail(ps))

GreenRuns(ps) == {i \in 1..Len(ps) : ps[i].color = "green"}

QuoteCount(s) == Cardinality({i \in 1..Len(s) : s[i] = QT})

-----------------------------------------------------------------------------
(* C3: for a caption with exactly one quoted substring "X", the runs of    *)
(* the line that contains X have exactly one green run, whose text is X;   *)
(* every other run is white and the run texts joined give the line, also   *)
(* when X occurs a second time, unquoted, in the line.                     *)

\* C3: highlight round-trip for a single keyword
C3_SingleKeywordRoundTrip ==
    /\ QuoteCount(text) = 2
    /\ Len(green_words) = 1
    /\ cur_line # <<>>
    /\ Find(cur_line, green_words[1], 0) # -1
    => /\ Cardinality(GreenRuns(parts)) = 1
       /\ \A i \in GreenRuns(parts) : parts[i].text = green_words[1]
       /\ \A i \in 1..Len(parts) : parts[i].color \in {"green", "white"}
       /\ RunTexts(parts) = cur_line

-----------------------------------------------------------------------------
(* C4: for every displayed line and every list of detected keywords the    *)
(* runs of the splitter are an ordered partition of the line: their texts  *)
(* joined in order give the line, no character duplicated or dropped.      *)
(* It is stated for the lists in which no keyword is repeated, which are   *)
(* among the lists the claim quantifies over.                              *)

NoRepeat(q) == \A i, j \in 1..Len(q) : q[i] = q[j] => i = j

\* C4: span partition invariant
C4_RunsPartitionLine ==
    has_highlights /\ NoRepeat(green_words) /\ cur_line # <<>> =>
        RunTexts(parts) = cur_line

-----------------------------------------------------------------------------
(* text_overlay.add_text_to_image (lines 8-213)                            *)

\* textwrap.TextWrapper(width=30)
wrapper_width == 30

IsBlank(chunk) == \A i \in 1..Len(chunk) : chunk[i] = SP

RECURSIVE ChunksFrom(_, _)
\* the chunks of TextWrapper._split: the maximal runs of spaces and of other
\* characters; cur is the chunk being read
ChunksFrom(s, cur) ==
    IF s = <<>> THEN (IF cur = <<>> THEN <<>> ELSE <<cur>>)
    ELSE IF cur = <<>> \/ ((Head(s) = SP) = (cur[1] = SP))
         THEN ChunksFrom(Tail(s), Append(cur, Head(s)))
         ELSE <<cur>> \o ChunksFrom(Tail(s), <<Head(s)>>)

RECURSIVE FillLine(_, _, _, _)
\* the inner loop of TextWrapper._wrap_chunks: chunks are taken while they fit
FillLine(chunks, cur, cur_len, wid) ==
    IF chunks # <<>> /\ cur_len + Len(Head(chunks)) <= wid
    THEN FillLine(Tail(chunks), Append(cur, Head(chunks)),
                  cur_len + Len(Head(chunks)), wid)
    ELSE [cur_line |-> cur, cur_len |-> cur_len, rest |-> chunks]

RECURSIVE WrapChunks(_, _, _)
\* TextWrapper._wrap_chunks with the default options (drop_whitespace,
\* break_long_words)
WrapChunks(chunks, done, wid) ==
    IF chunks = <<>> THEN done
    ELSE LET c1 == IF IsBlank(Head(chunks)) /\ done # <<>>
                   THEN Tail(chunks) ELSE chunks
             f == FillLine(c1, <<>>, 0, wid)
             long == f.rest # <<>> /\ Len(Head(f.rest)) > wid
             space_left == wid - f.cur_len
             cur == IF long
                    THEN Append(f.cur_line, Slice(Head(f.rest), 0, space_left))
                    ELSE f.cur_line
             rest == IF long
                     THEN <<Slice(Head(f.rest), space_left, Len(Head(f.rest)))>>
                          \o Tail(f.rest)
                     ELSE f.rest
             kept == IF cur # <<>> /\ IsBlank(cur[Len(cur)])
                     THEN SubSeq(cur, 1, Len(cur) - 1) ELSE cur
         IN  WrapChunks(rest, IF kept # <<>> THEN Append(done, Concat(kept)) ELSE done,
                        wid)

\* wrapper.wrap(s)
TextWrap(s) == WrapChunks(ChunksFrom(s, <<>>), <<>>, wrapper_width)

RECURSIVE FindQuotedText(_, _)
\* find_quoted_text: re.findall(r'"([^"]*)"', text), from index pos on
FindQuotedText(s, pos) ==
    IF pos >= Len(s) THEN <<>>
    ELSE LET q == IF s[pos + 1] = QT THEN Find(s, <<QT>>, pos + 1) ELSE -1
         IN  IF q # -1
             THEN <<Slice(s, pos + 1, q)>> \o FindQuotedText(s, q + 1)
             ELSE FindQuotedText(s, pos + 1)

RECURSIVE OverlayDisplayText(_, _)
\* lines 136-139: display_text.replace(f'"{quoted}"', quoted) for every keyword
OverlayDisplayText(s, qs) ==
    IF qs = <<>> THEN s
    ELSE OverlayDisplayText(SubQuoted(s, Head(qs), 0), Tail(qs))

RECURSIVE FirstQuotedIn(_, _)
\* the first keyword of the list with `quoted in current_text`, as a
\* one-element list, or the empty list
FirstQuotedIn(line, qs) ==
    IF qs = <<>> THEN <<>>
    ELSE IF Find(line, Head(qs), 0) # -1 THEN <<Head(qs)>>
    ELSE FirstQuotedIn(line, Tail(qs))

\* current_text.split(quoted, 1) raises ValueError for an empty separator
LineRaises(line, qs) == FirstQuotedIn(line, qs) = <<<<>>>>

\* line_positions of one line (lines 147-175): the first keyword of the list
\* found in the line is highlighted at its first occurrence, and the loop
\* over the keywords is left
LinePositions(line, qs) ==
    LET found == FirstQuotedIn(line, qs)
    IN  IF found = <<>> THEN <<Run(line, "white")>>
        ELSE LET quoted == found[1]
                 at == Find(line, quoted, 0)
                 before == Slice(line, 0, at)
                 after == Slice(line, at + Len(quoted), Len(line))
             IN  (IF before # <<>> THEN <<Run(before, "white")>> ELSE <<>>)
                 \o <<Run(quoted, "green")>>
                 \o (IF after # <<>> THEN <<Run(after, "white")>> ELSE <<>>)

\* lines 106-114: int(height * 0.20) is (height * 20) \div 100
StartY(h, nlines, logo) ==
    LET centred == (h - nlines * 60) \div 2
    IN  IF logo THEN Max2(centred, (h * 20) \div 100) ELSE centred

\* the words captions are made of: a 13-letter word, quoted keywords, an
\* empty pair of quotes
Filler == [i \in 1..13 |-> "a"]

CaptionTokens == {Filler, <<QT, "b", QT>>, <<QT, "c", QT>>,
                  <<QT, "b", SP, "c", QT>>, <<QT, QT>>}

OverlayCaptions == {Join(ts) : ts \in SeqsUpTo(CaptionTokens, MaxCaptionTokens)}

\* the files around one call: <<fonts, logo, frame>>
AssetStates == {<<"absent", "absent", NoFile>>,
                <<"ok", "ok", FrameImage(1080, 1920, 80, 80, 80, 80)>>,
                <<"corrupt", "corrupt", CorruptFile>>}

SourceImages == {NoImage,
                 [exists |-> TRUE, readable |-> FALSE, w |-> 0, h |-> 0],
                 [exists |-> TRUE, readable |-> TRUE, w |-> 1080, h |-> 1920],
                 [exists |-> TRUE, readable |-> TRUE, w |-> 400, h |-> 300]}

\* logo.size: the logo of test_logo.py, a square logo, an upright logo
LogoSizes == {<<300, 100>>, <<200, 200>>, <<100, 300>>}

\* lines 58-64, 76: the rows of the canvas covered by the pasted logo
LogoBox(w, h, lsize) ==
    LET logo_width == (w * 3) \div 10
        logo_height == (lsize[2] * logo_width) \div lsize[1]
        logo_y == (h * 5) \div 100
    IN  [top |-> logo_y, bottom |-> logo_y + logo_height]

OverlayInit ==
    /\ VideoIdle
    /\ SessionIdle
    /\ WorkIdle
    /\ DrawIdle
    /\ ShadowIdle
    /\ logo_box = NoLogoBox
    /\ ParIdle
    /\ CallIdle
    /\ WrapIdle
    /\ MarginIdle
    /\ SplitIdle
    /\ text \in OverlayCaptions
    /\ font_env = [system |-> FALSE, bundled |-> "absent", variant |-> FALSE]
    /\ initial_font_size = 0
    /\ font_size = 0
    /\ font = NoFont
    /\ text_too_large = FALSE
    /\ attempt = 0
    /\ wrapped_lines = <<>>
    /\ final_font_path = "None"
    /\ final_lines = <<>>
    /\ fit_pc = "idle"
    /\ \E a \in AssetStates :
         /\ font_files = a[1]
         /\ logo_file = a[2]
         /\ custom_frame_file = a[3]
    /\ logo_size \in IF logo_file = "ok" THEN LogoSizes ELSE {<<0, 0>>}
    /\ local_frame_file = NoFile
    /\ frame_rgba = NoFile
    /\ edge_points = <<>>
    /\ point_i = 1
    /\ border_samples = <<>>
    /\ detect_pc = "idle"
    /\ image_file \in SourceImages
    /\ output_dir \in {"", "existing", "missing"}
    /\ img = NoImage
    /\ loaded_font = "none"
    /\ logo_added = FALSE
    /\ frame_added = FALSE
    /\ quoted_texts = <<>>
    /\ start_y = 0
    /\ wrapped_display_lines = <<>>
    /\ overlay_i = 1
    /\ drawn_runs = <<>>
    /\ saved_file = NoImage
    /\ result = "running"
    /\ overlay_pc = "open"

\* lines 17-47: the source image is opened and a font is chosen; a candidate
\* that raises is skipped, the default font is the last resort
OverlayOpen ==
    /\ overlay_pc = "open"
    /\ IF image_file.readable
       THEN /\ img' = image_file
            /\ loaded_font' = IF font_files = "ok" THEN "custom" ELSE "default"
            /\ overlay_pc' = "logo"
            /\ UNCHANGED result
       ELSE /\ result' = "False"
            /\ overlay_pc' = "done"
            /\ UNCHANGED <<img, loaded_font>>
    /\ UNCHANGED <<image_file, font_files, logo_file, output_dir, logo_added,
                   frame_added, quoted_texts, start_y, wrapped_display_lines,
                   overlay_i, drawn_runs, saved_file>>
    /\ UNCHANGED <<wrapVars, marginVars, fitVars, detectVars, splitVars, callVars>>
    /\ UNCHANGED parVars
    /\ UNCHANGED logoVars
    /\ UNCHANGED shadowVars
    /\ UNCHANGED drawVars
    /\ UNCHANGED workVars
    /\ UNCHANGED sessionVars
    /\ UNCHANGED videoVars

\* lines 49-82: the logo, when its file exists and can be pasted
OverlayLogo ==
    /\ overlay_pc = "logo"
    /\ logo_added' = (logo_file = "ok")
    /\ overlay_pc' = "wrap"
    /\ UNCHANGED <<image_file, font_files, logo_file, output_dir, img,
                   loaded_font, frame_added, quoted_texts, start_y,
                   wrapped_display_lines, overlay_i, drawn_runs, saved_file,
                   result>>
    /\ UNCHANGED <<wrapVars, marginVars, fitVars, detectVars, splitVars>>
    /\ layers' = IF logo_file = "ok" THEN AddLayer(layers, "logo") ELSE layers
    /\ UNCHANGED old_pc
    /\ UNCHANGED parVars
    /\ logo_box' = IF logo_file = "ok" THEN LogoBox(img.w, img.h, logo_size)
                   ELSE NoLogoBox
    /\ UNCHANGED logo_size
    /\ UNCHANGED shadowVars
    /\ UNCHANGED drawVars
    /\ UNCHANGED workVars
    /\ UNCHANGED sessionVars
    /\ UNCHANGED videoVars

\* lines 84-142: keywords, wrapping, text block position, backing panel
OverlayWrap ==
    /\ overlay_pc = "wrap"
    /\ LET qs == FindQuotedText(text, 0)
       IN  /\ quoted_texts' = qs
           /\ wrapped_display_lines' = TextWrap(OverlayDisplayText(text, qs))
    /\ start_y' = StartY(img.h, Len(TextWrap(text)), logo_file # "absent")
    /\ overlay_i' = 1
    /\ drawn_runs' = <<>>
    /\ overlay_pc' = "draw"
    /\ UNCHANGED <<image_file, font_files, logo_file, output_dir, img,
                   loaded_font, logo_added, frame_added, saved_file, result>>
    /\ UNCHANGED <<wrapVars, marginVars, fitVars, detectVars, splitVars>>
    /\ layers' = AddLayer(layers, "panel")
    /\ UNCHANGED old_pc
    /\ UNCHANGED parVars
    /\ UNCHANGED logoVars
    /\ UNCHANGED shadowVars
    /\ UNCHANGED drawVars
    /\ UNCHANGED workVars
    /\ UNCHANGED sessionVars
    /\ UNCHANGED videoVars

\* lines 145-181: one line of wrapped_display_lines, or the end of the loop
OverlayDrawLine ==
    /\ overlay_pc = "draw"
    /\ IF overlay_i > Len(wrapped_display_lines)
       THEN /\ overlay_pc' = "frame"
            /\ UNCHANGED <<overlay_i, drawn_runs, result>>
       ELSE IF LineRaises(wrapped_display_lines[overlay_i], quoted_texts)
       THEN /\ result' = "False"
            /\ overlay_pc' = "done"
            /\ UNCHANGED <<overlay_i, drawn_runs>>
       ELSE /\ drawn_runs' = Append(drawn_runs,
                  LinePositions(wrapped_display_lines[overlay_i], quoted_texts))
            /\ overlay_i' = overlay_i + 1
            /\ UNCHANGED <<overlay_pc, result>>
    /\ UNCHANGED <<image_file, font_files, logo_file, output_dir, img,
                   loaded_font, logo_added, frame_added, quoted_texts, start_y,
                   wrapped_display_lines, saved_file>>
    /\ UNCHANGED <<wrapVars, marginVars, fitVars, detectVars, splitVars>>
    /\ layers' = IF overlay_i <= Len(wrapped_display_lines)
                  /\ ~LineRaises(wrapped_display_lines[overlay_i], quoted_texts)
               THEN AddLayer(layers, "text") ELSE layers
    /\ UNCHANGED old_pc
    /\ UNCHANGED parVars
    /\ UNCHANGED logoVars
    /\ UNCHANGED shadowVars
    /\ UNCHANGED drawVars
    /\ UNCHANGED workVars
    /\ UNCHANGED sessionVars
    /\ UNCHANGED videoVars

\* lines 183-200: the frame, when its file exists and can be composited
OverlayFrame ==
    /\ overlay_pc = "frame"
    /\ frame_added' = (custom_frame_file.exists /\ custom_frame_file.readable)
    /\ overlay_pc' = "save"
    /\ UNCHANGED <<image_file, font_files, logo_file, output_dir, img,
                   loaded_font, logo_added, quoted_texts, start_y,
                   wrapped_display_lines, overlay_i, drawn_runs, saved_file,
                   result>>
    /\ UNCHANGED <<wrapVars, marginVars, fitVars, detectVars, splitVars>>
    /\ layers' = IF custom_frame_file.exists /\ custom_frame_file.readable
               THEN AddLayer(layers, "frame") ELSE layers
    /\ UNCHANGED old_pc
    /\ UNCHANGED parVars
    /\ UNCHANGED logoVars
    /\ UNCHANGED shadowVars
    /\ UNCHANGED drawVars
    /\ UNCHANGED workVars
    /\ UNCHANGED sessionVars
    /\ UNCHANGED videoVars

\* lines 202-213: os.makedirs(os.path.dirname(output_path), exist_ok=True)
\* raises for the empty path; otherwise the image is saved
OverlaySave ==
    /\ overlay_pc = "save"
    /\ IF output_dir = ""
       THEN /\ result' = "False"
            /\ UNCHANGED <<output_dir, saved_file>>
       ELSE /\ output_dir' = "existing"
            /\ saved_file' = [exists |-> TRUE, readable |-> TRUE,
                              w |-> img.w, h |-> img.h]
            /\ result' = "True"
    /\ overlay_pc' = "done"
    /\ UNCHANGED <<image_file, font_files, logo_file, img, loaded_font,
                   logo_added, frame_added, quoted_texts, start_y,
                   wrapped_display_lines, overlay_i, drawn_runs>>
    /\ UNCHANGED <<wrapVars, marginVars, fitVars, detectVars, splitVars>>
    /\ layers' = AddLayer(layers, "flatten")
    /\ UNCHANGED old_pc
    /\ UNCHANGED parVars
    /\ UNCHANGED logoVars
    /\ UNCHANGED shadowVars
    /\ UNCHANGED drawVars
    /\ UNCHANGED workVars
    /\ UNCHANGED sessionVars
    /\ UNCHANGED videoVars

OverlayNext ==
    \/ OverlayOpen
    \/ OverlayLogo
    \/ OverlayWrap
    \/ OverlayDrawLine
    \/ OverlayFrame
    \/ OverlaySave

SpecOverlay == OverlayInit /\ [][OverlayNext]_vars

RECURSIVE GreenCount(_)
\* the number of highlighted runs over the lines drawn
GreenCount(ls) ==
    IF ls = <<>> THEN 0
    ELSE Cardinality(GreenRuns(Head(ls))) + GreenCount(Tail(ls))

-----------------------------------------------------------------------------
(* C5: for a caption with k distinct quoted keywords add_text_to_image     *)
(* draws each keyword once in the highlight color: when all lines are      *)
(* drawn the number of highlighted runs is k, also when two keywords are   *)
(* on one wrapped line.                                                    *)

\* C5: highlighted-run count
C5_HighlightedRunCount ==
    /\ overlay_pc \in {"frame", "save"} \/ result = "True"
    /\ QuoteCount(text) = 2 * Len(quoted_texts)
    /\ NoRepeat(quoted_texts)
    /\ \A i \in 1..Len(quoted_texts) : quoted_texts[i] # <<>>
    => GreenCount(drawn_runs) = Len(quoted_texts)

-----------------------------------------------------------------------------
(* C10: with a caption and a readable source image, and the logo file, the *)
(* frame file and every candidate font file absent, add_text_to_image      *)
(* returns True and the file written at output_path has the dimensions of  *)
(* the source image.  It is stated for an output_path that has a directory *)
(* component.                                                              *)

\* C10: graceful degradation
C10_GracefulDegradation ==
    /\ overlay_pc = "done"
    /\ image_file.readable
    /\ font_files = "absent"
    /\ logo_file = "absent"
    /\ ~custom_frame_file.exists
    /\ output_dir # ""
    => /\ result = "True"
       /\ saved_file.exists
       /\ saved_file.w = image_file.w
       /\ saved_file.h = image_file.h

-----------------------------------------------------------------------------
(* C11: add_text_to_image never propagates an exception; it returns True   *)
(* only with the flattened image saved at output_path, False otherwise,    *)
(* and a call that reaches the save step saves, whatever the directory     *)
(* part of output_path (missing, or none at all).                          *)

\* the call went through every step up to the save of lines 202-207
SaveAttempted ==
    /\ overlay_pc = "done"
    /\ img.readable
    /\ overlay_i > Len(wrapped_display_lines)

\* C11: entry-point result contract
C11_ResultContract ==
    overlay_pc = "done" =>
        /\ result \in {"True", "False"}
        /\ (result = "True") = saved_file.exists
        /\ SaveAttempted => result = "True"

-----------------------------------------------------------------------------
(* One whole call of add_text_to_image_old (text_overlay.py lines 215-755; *)
(* main.add_text_to_image, main.py lines 431-720, is the same code): the   *)
(* source image is opened, the frame border is detected, the dimming       *)
(* overlay and the logo are composited, the margins and the font size are  *)
(* computed, the text is drawn, the frame is composited and the image is   *)
(* saved.  Every step outside a try block propagates what it raises.       *)

\* a word of 20 letters, wider than the text box of the 400 x 300 canvas
LongWord == [i \in 1..20 |-> "a"]

\* "aaaa |bbbb |cccc": a keyword with "|" in it
BarCaption ==
    <<QT, "a", "a", "a", "a", SP, BAR, "b", "b", "b", "b", SP, BAR,
      "c", "c", "c", "c", QT>>

\* the caption "a" b with its quotes escaped by n backslashes each
EscCaption(n) ==
    LET q == [i \in 1..n |-> BS] \o <<QT>>
    IN  q \o <<"a">> \o q \o <<SP, "b">>

EscCaptions == {EscCaption(1), EscCaption(2)}

OldCaptions == {Caption(2),
                EscCaption(0),
                LongWord,
                <<QT>> \o LongWord \o <<QT>>,
                BarCaption} \cup EscCaptions

\* the frame file of the calls
SampleFrame == FrameImage(400, 300, 80, 80, 80, 80)

\* the files around one call: <<source image, cache/custom/frame.png>>; the
\* 8 x 8 source is paired with a frame file, which is when its size matters
OldSources ==
    ({NoImage,
      [exists |-> TRUE, readable |-> FALSE, w |-> 0, h |-> 0],
      [exists |-> TRUE, readable |-> TRUE, w |-> 400, h |-> 300]}
     \X {NoFile, CorruptFile, SampleFrame})
    \cup {<<[exists |-> TRUE, readable |-> TRUE, w |-> 8, h |-> 8], SampleFrame>>}

OldInit ==
    /\ VideoIdle
    /\ SessionIdle
    /\ WorkIdle
    /\ DrawIdle
    /\ ShadowIdle
    /\ LogoIdle
    /\ ParIdle
    /\ WrapIdle
    /\ \E src \in OldSources :
         /\ image_file = src[1]
         /\ custom_frame_file = src[2]
    /\ local_frame_file \in {NoFile, SampleFrame}
    /\ logo_file \in {"absent", "ok", "corrupt"}
    /\ output_dir \in {"", "existing", "missing"}
    /\ text \in OldCaptions
    /\ font_env \in FontEnvs
    \* nothing has run yet
    /\ width = 0
    /\ height = 0
    /\ frame_exists = FALSE
    /\ frame_border_width = 0
    /\ left_margin = 0
    /\ right_margin = 0
    /\ bottom_margin = 0
    /\ top_margin = 0
    /\ max_text_width = 0
    /\ max_text_height = 0
    /\ margin_pc = "wait"
    /\ initial_font_size = 0
    /\ font_size = 0
    /\ font = NoFont
    /\ text_too_large = FALSE
    /\ attempt = 0
    /\ wrapped_lines = <<>>
    /\ final_font_path = "None"
    /\ final_lines = <<>>
    /\ fit_pc = "start"
    /\ frame_rgba = NoFile
    /\ edge_points = <<>>
    /\ point_i = 1
    /\ border_samples = <<>>
    /\ detect_pc = "wait"
    /\ green_words = <<>>
    /\ has_highlights = FALSE
    /\ display_text = <<>>
    /\ display_lines = <<>>
    /\ line_i = 1
    /\ in_sub = FALSE
    /\ sub_lines = <<>>
    /\ sub_i = 1
    /\ cur_line = <<>>
    /\ parts = <<>>
    /\ line_y = 0
    /\ split_pc = "keywords"
    /\ font_files = "absent"
    /\ img = NoImage
    /\ loaded_font = "none"
    /\ logo_added = FALSE
    /\ frame_added = FALSE
    /\ quoted_texts = <<>>
    /\ start_y = 0
    /\ wrapped_display_lines = <<>>
    /\ overlay_i = 1
    /\ drawn_runs = <<>>
    /\ saved_file = NoImage
    /\ result = "running"
    /\ overlay_pc = "idle"
    /\ old_pc = "open"
    /\ layers = <<>>

\* mutant: a source that cannot be opened is replaced by a blank canvas
OldOpenBlank ==
    /\ old_pc = "open"
    /\ img' = IF image_file.readable THEN image_file
              ELSE [exists |-> TRUE, readable |-> TRUE, w |-> 400, h |-> 300]
    /\ width' = img'.w
    /\ height' = img'.h
    /\ detect_pc' = "start"
    /\ old_pc' = "detect"
    /\ UNCHANGED <<frame_exists, frame_border_width, left_margin, right_margin,
                   bottom_margin, top_margin, max_text_width, max_text_height,
                   margin_pc>>
    /\ UNCHANGED <<custom_frame_file, local_frame_file, frame_rgba, edge_points,
                   point_i, border_samples>>
    /\ UNCHANGED <<image_file, font_files, logo_file, output_dir, loaded_font,
                   logo_added, frame_added, quoted_texts, start_y,
                   wrapped_display_lines, overlay_i, drawn_runs, saved_file,
                   result, overlay_pc>>
    /\ UNCHANGED layers
    /\ UNCHANGED <<wrapVars, fitVars, splitVars>>
    /\ UNCHANGED parVars
    /\ UNCHANGED logoVars
    /\ UNCHANGED shadowVars
    /\ UNCHANGED drawVars
    /\ UNCHANGED workVars
    /\ UNCHANGED sessionVars
    /\ UNCHANGED videoVars

\* lines 227-239: Image.open(image_path) is not inside a try block
OldOpen ==
    /\ old_pc = "open"
    /\ IF image_file.readable
       THEN /\ img' = image_file
            /\ width' = image_file.w
            /\ height' = image_file.h
            /\ detect_pc' = "start"
            /\ old_pc' = "detect"
       ELSE /\ old_pc' = "raised"
            /\ UNCHANGED <<img, width, height, detect_pc>>
    /\ UNCHANGED <<frame_exists, frame_border_width, left_margin, right_margin,
                   bottom_margin, top_margin, max_text_width, max_text_height,
                   margin_pc>>
    /\ UNCHANGED <<custom_frame_file, local_frame_file, frame_rgba, edge_points,
                   point_i, border_samples>>
    /\ UNCHANGED <<image_file, font_files, logo_file, output_dir, loaded_font,
                   logo_added, frame_added, quoted_texts, start_y,
                   wrapped_display_lines, overlay_i, drawn_runs, saved_file,
                   result, overlay_pc>>
    /\ UNCHANGED layers
    /\ UNCHANGED <<wrapVars, fitVars, splitVars>>
    /\ UNCHANGED parVars
    /\ UNCHANGED logoVars
    /\ UNCHANGED shadowVars
    /\ UNCHANGED drawVars
    /\ UNCHANGED workVars
    /\ UNCHANGED sessionVars
    /\ UNCHANGED videoVars

\* what the detection raised (Image.open of the frame file on line 248, the
\* zero step of range() on lines 257-260) leaves the function
OldDetectRaises ==
    /\ old_pc = "detect"
    /\ detect_pc = "raised"
    /\ old_pc' = "raised"
    /\ UNCHANGED layers
    /\ UNCHANGED <<wrapVars, marginVars, fitVars, detectVars, splitVars,
                   overlayVars>>
    /\ UNCHANGED parVars
    /\ UNCHANGED logoVars
    /\ UNCHANGED shadowVars
    /\ UNCHANGED drawVars
    /\ UNCHANGED workVars
    /\ UNCHANGED sessionVars
    /\ UNCHANGED videoVars

\* lines 314-321: the dimming overlay
OldDim ==
    /\ old_pc = "detect"
    /\ detect_pc = "done"
    /\ layers' = AddLayer(layers, "dim")
    /\ old_pc' = "logo"
    /\ UNCHANGED <<wrapVars, marginVars, fitVars, detectVars, splitVars,
                   overlayVars>>
    /\ UNCHANGED parVars
    /\ UNCHANGED logoVars
    /\ UNCHANGED shadowVars
    /\ UNCHANGED drawVars
    /\ UNCHANGED workVars
    /\ UNCHANGED sessionVars
    /\ UNCHANGED videoVars

\* lines 323-356: the logo, inside a try block; the margins come next
OldLogo ==
    /\ old_pc = "logo"
    /\ logo_added' = (logo_file = "ok")
    /\ layers' = IF logo_file = "ok" THEN AddLayer(layers, "logo") ELSE layers
    /\ margin_pc' = "compute"
    /\ old_pc' = "text"
    /\ UNCHANGED <<width, height, frame_exists, frame_border_width, left_margin,
                   right_margin, bottom_margin, top_margin, max_text_width,
                   max_text_height>>
    /\ UNCHANGED <<image_file, font_files, logo_file, output_dir, img,
                   loaded_font, frame_added, quoted_texts, start_y,
                   wrapped_display_lines, overlay_i, drawn_runs, saved_file,
                   result, overlay_pc>>
    /\ UNCHANGED <<wrapVars, fitVars, detectVars, splitVars>>
    /\ UNCHANGED parVars
    /\ UNCHANGED logoVars
    /\ UNCHANGED shadowVars
    /\ UNCHANGED drawVars
    /\ UNCHANGED workVars
    /\ UNCHANGED sessionVars
    /\ UNCHANGED videoVars

\* lines 720-751: the frame of cache/custom/frame.png, inside a try block
OldFrame ==
    /\ old_pc = "text"
    /\ split_pc = "done"
    /\ frame_added' = (custom_frame_file.exists /\ custom_frame_file.readable)
    /\ layers' = IF custom_frame_file.exists /\ custom_frame_file.readable
                 THEN AddLayer(layers, "frame") ELSE layers
    /\ old_pc' = "save"
    /\ UNCHANGED <<image_file, font_files, logo_file, output_dir, img,
                   loaded_font, logo_added, quoted_texts, start_y,
                   wrapped_display_lines, overlay_i, drawn_runs, saved_file,
                   result, overlay_pc>>
    /\ UNCHANGED <<wrapVars, marginVars, fitVars, detectVars, splitVars>>
    /\ UNCHANGED parVars
    /\ UNCHANGED logoVars
    /\ UNCHANGED shadowVars
    /\ UNCHANGED drawVars
    /\ UNCHANGED workVars
    /\ UNCHANGED sessionVars
    /\ UNCHANGED videoVars

\* line 754: img_with_overlay.convert('RGB').save(output_path); no directory
\* is created, so the save raises when the directory is missing
OldSave ==
    /\ old_pc = "save"
    /\ layers' = AddLayer(layers, "flatten")
    /\ IF output_dir = "missing"
       THEN /\ old_pc' = "raised"
            /\ UNCHANGED saved_file
       ELSE /\ saved_file' = [exists |-> TRUE, readable |-> TRUE,
                              w |-> img.w, h |-> img.h]
            /\ old_pc' = "returned"
    /\ UNCHANGED <<image_file, font_files, logo_file, output_dir, img,
                   loaded_font, logo_added, frame_added, quoted_texts, start_y,
                   wrapped_display_lines, overlay_i, drawn_runs, result,
                   overlay_pc>>
    /\ UNCHANGED <<wrapVars, marginVars, fitVars, detectVars, splitVars>>
    /\ UNCHANGED parVars
    /\ UNCHANGED logoVars
    /\ UNCHANGED shadowVars
    /\ UNCHANGED drawVars
    /\ UNCHANGED workVars
    /\ UNCHANGED sessionVars
    /\ UNCHANGED videoVars

OldNext ==
    \/ OldOpen
    \/ DetectStart
    \/ DetectSample
    \/ DetectFinish
    \/ OldDetectRaises
    \/ OldDim
    \/ OldLogo
    \/ ComputeMargins
    \/ FitStart
    \/ FitAttempt
    \/ FitExit
    \/ FinalWrap
    \/ DetectKeywords
    \/ WrapDisplay
    \/ BeginLine
    \/ SplitRuns
    \/ SplitDone
    \/ OldFrame
    \/ OldSave

SpecOld == OldInit /\ [][OldNext]_vars

\* the two entry points, each called once from its initial state
EntryInit == OverlayInit \/ OldInit

EntryNext == OverlayNext \/ OldNext

SpecEntry == EntryInit /\ [][EntryNext]_vars

-----------------------------------------------------------------------------
(* C12: when the source image cannot be opened the call reports failure    *)
(* (add_text_to_image returns False, add_text_to_image_old raises), no     *)
(* file is written at output_path and nothing is composed: no blank or     *)
(* placeholder frame.                                                      *)

\* C12: unreadable source is surfaced
C12_UnreadableSourceSurfaced ==
    ~image_file.readable =>
        /\ ~saved_file.exists
        /\ img = NoImage
        /\ layers = <<>>
        /\ overlay_pc = "done" => result = "False"
        /\ overlay_pc # "done" => result = "running"
        /\ old_pc \in {"idle", "open", "raised"}

\* C12 witness: add_text_to_image_old has raised on a source file that exists
\* and cannot be decoded
C12_Witness ==
    /\ image_file.exists
    /\ ~image_file.readable
    /\ old_pc = "raised"
    /\ ~saved_file.exists

-----------------------------------------------------------------------------
(* C13: a logo or frame file that exists and cannot be decoded, or a       *)
(* canvas too small for the edge sampling, never makes the border          *)
(* detection raise: with a readable source the call completes and writes   *)
(* its output.                                                             *)

\* C13: decorations are never required
C13_DecorationsNeverRequired ==
    (old_pc # "idle" /\ image_file.readable) =>
        /\ detect_pc # "raised"
        /\ old_pc = "raised" => output_dir = "missing"
        /\ old_pc = "returned" => saved_file.exists

-----------------------------------------------------------------------------
(* C14: layer order.                                                       *)

LayerRank(name) ==
    CASE name = "dim" -> 1
      [] name = "logo" -> 2
      [] name = "panel" -> 3
      [] name = "text" -> 4
      [] name = "frame" -> 5
      [] name = "flatten" -> 6

LayerNames(ls) == {ls[i] : i \in 1..Len(ls)}

\* one draw call per line of text; every other layer is applied at most once
LayersOrdered(ls) ==
    \A i, j \in 1..Len(ls) :
        i < j => \/ LayerRank(ls[i]) < LayerRank(ls[j])
                 \/ ls[i] = "text" /\ ls[j] = "text"

-----------------------------------------------------------------------------
(* Two overlay calls on one file system.  A call is add_text_to_image      *)
(* ("new") or add_text_to_image_old ("old"); every step that reads or      *)
(* writes a file is one action, so that the steps of the two calls         *)
(* interleave in every order.  The content of a file is a sequence of      *)
(* strings; the content of an output file records the function, the        *)
(* caption and every image that was read to compose it.                    *)

SourceA == "in/a.jpg"

SourceB == "in/b.jpg"

OutX == "out/x.jpg"

OutY == "out/y.jpg"

LogoPath == "cache/custom/logo.png"

FramePath == "cache/custom/frame.png"

ParPaths == {SourceA, SourceB, OutX, OutY, LogoPath, FramePath}

\* os.path.dirname
DirOf(path) ==
    IF path \in {OutX, OutY} THEN "out"
    ELSE IF path \in {SourceA, SourceB} THEN "in"
    ELSE "cache/custom"

Missing == <<>>

Corrupt == <<"corrupt">>

\* Image.open succeeds
Readable(content) == content \notin {Missing, Corrupt}

\* an asset opened inside try/except: left out when it cannot be read
ReadAsset(content) == IF Readable(content) THEN content ELSE Missing

Calls == {1, 2}

NoLocals == [src |-> Missing, det |-> Missing, logo |-> Missing,
             frame |-> Missing]

\* mutant: the images read are kept in one place shared by the calls
SharedSlot(p) == 1

\* img, logo, frame are local variables of the call
ParLocalSlot(p) == p

\* the saved image is a function of the caption and of the images read
Render(a, l) ==
    <<a.kind, a.txt, "src">> \o l.src \o <<"det">> \o l.det
        \o <<"logo">> \o l.logo \o <<"frame">> \o l.frame

Failed(kind) == IF kind = "new" THEN "False" ELSE "raised"

Succeeded(kind) == IF kind = "new" THEN "True" ELSE "returned"

\* the outcome of one call run alone on the files fs and directories dirs
RunAlone(a, fs, dirs) ==
    LET l == [src |-> fs[a.src],
              det |-> IF a.kind = "old" THEN fs[FramePath] ELSE Missing,
              logo |-> ReadAsset(fs[LogoPath]),
              frame |-> ReadAsset(fs[FramePath])]
        fails == \/ ~Readable(fs[a.src])
                 \/ a.kind = "old" /\ fs[FramePath] = Corrupt
                 \/ a.kind = "old" /\ DirOf(a.out) \notin dirs
    IN  IF fails
        THEN [status |-> Failed(a.kind), content |-> fs[a.out]]
        ELSE [status |-> Succeeded(a.kind), content |-> Render(a, l)]

ParKinds == {"new", "old"}

ParInit ==
    /\ VideoIdle
    /\ SessionIdle
    /\ WorkIdle
    /\ DrawIdle
    /\ ShadowIdle
    /\ LogoIdle
    /\ WrapIdle
    /\ MarginIdle
    /\ FitIdle
    /\ DetectIdle
    /\ SplitIdle
    /\ OverlayIdle
    /\ CallIdle
    /\ \E k1, k2 \in ParKinds, s2 \in {SourceA, SourceB},
          o1 \in {OutX, SourceB, FramePath}, o2 \in {OutX, OutY} :
           par_args = [p \in Calls |->
                          IF p = 1
                          THEN [kind |-> k1, src |-> SourceA, out |-> o1,
                                txt |-> "caption 1"]
                          ELSE [kind |-> k2, src |-> s2, out |-> o2,
                                txt |-> "caption 2"]]
    /\ \E b \in {<<"B">>, Corrupt}, lg \in {Missing, <<"L">>, Corrupt},
          fr \in {Missing, <<"F">>, Corrupt} :
           par_fs = [path \in ParPaths |->
                        CASE path = SourceA -> <<"A">>
                          [] path = SourceB -> b
                          [] path = LogoPath -> lg
                          [] path = FramePath -> fr
                          [] OTHER -> Missing]
    /\ par_dirs \in {{"in", "cache/custom"}, {"in", "cache/custom", "out"}}
    /\ par_before = [fs |-> par_fs, dirs |-> par_dirs]
    /\ par_local = [p \in Calls |-> NoLocals]
    /\ par_pc = [p \in Calls |-> "open"]
    /\ par_status = [p \in Calls |-> "running"]

\* lines 19 and 230: Image.open(image_path)
ParOpen(p) ==
    /\ par_pc[p] = "open"
    /\ LET a == par_args[p]
           c == par_fs[a.src]
       IN  IF Readable(c)
           THEN /\ par_local' = [par_local EXCEPT ![ParLocalSlot(p)].src = c]
                /\ par_pc' = [par_pc EXCEPT
                                 ![p] = IF a.kind = "new" THEN "logo"
                                        ELSE "detect"]
                /\ UNCHANGED par_status
           ELSE /\ par_status' = [par_status EXCEPT ![p] = Failed(a.kind)]
                /\ par_pc' = [par_pc EXCEPT ![p] = "done"]
                /\ UNCHANGED par_local
    /\ UNCHANGED <<par_before, par_fs, par_dirs, par_args>>
    /\ UNCHANGED <<wrapVars, marginVars, fitVars, detectVars, splitVars,
                   overlayVars, callVars>>
    /\ UNCHANGED logoVars
    /\ UNCHANGED shadowVars
    /\ UNCHANGED drawVars
    /\ UNCHANGED workVars
    /\ UNCHANGED sessionVars
    /\ UNCHANGED videoVars

\* lines 243-312: add_text_to_image_old opens the frame file to measure it
ParDetect(p) ==
    /\ par_pc[p] = "detect"
    /\ LET c == par_fs[FramePath]
       IN  IF c = Corrupt
           THEN /\ par_status' = [par_status EXCEPT ![p] = "raised"]
                /\ par_pc' = [par_pc EXCEPT ![p] = "done"]
                /\ UNCHANGED par_local
           ELSE /\ par_local' = [par_local EXCEPT ![ParLocalSlot(p)].det = c]
                /\ par_pc' = [par_pc EXCEPT ![p] = "logo"]
                /\ UNCHANGED par_status
    /\ UNCHANGED <<par_before, par_fs, par_dirs, par_args>>
    /\ UNCHANGED <<wrapVars, marginVars, fitVars, detectVars, splitVars,
                   overlayVars, callVars>>
    /\ UNCHANGED logoVars
    /\ UNCHANGED shadowVars
    /\ UNCHANGED drawVars
    /\ UNCHANGED workVars
    /\ UNCHANGED sessionVars
    /\ UNCHANGED videoVars

\* lines 52-82 and 323-356
ParLogo(p) ==
    /\ par_pc[p] = "logo"
    /\ par_local' = [par_local EXCEPT
                        ![ParLocalSlot(p)].logo = ReadAsset(par_fs[LogoPath])]
    /\ par_pc' = [par_pc EXCEPT ![p] = "frame"]
    /\ UNCHANGED <<par_before, par_fs, par_dirs, par_args, par_status>>
    /\ UNCHANGED <<wrapVars, marginVars, fitVars, detectVars, splitVars,
                   overlayVars, callVars>>
    /\ UNCHANGED logoVars
    /\ UNCHANGED shadowVars
    /\ UNCHANGED drawVars
    /\ UNCHANGED workVars
    /\ UNCHANGED sessionVars
    /\ UNCHANGED videoVars

\* lines 183-200 and 720-751
ParFrame(p) ==
    /\ par_pc[p] = "frame"
    /\ par_local' = [par_local EXCEPT
                        ![ParLocalSlot(p)].frame =
                            ReadAsset(par_fs[FramePath])]
    /\ par_pc' = [par_pc EXCEPT
                     ![p] = IF par_args[p].kind = "new" THEN "mkdir"
                            ELSE "save"]
    /\ UNCHANGED <<par_before, par_fs, par_dirs, par_args, par_status>>
    /\ UNCHANGED <<wrapVars, marginVars, fitVars, detectVars, splitVars,
                   overlayVars, callVars>>
    /\ UNCHANGED logoVars
    /\ UNCHANGED shadowVars
    /\ UNCHANGED drawVars
    /\ UNCHANGED workVars
    /\ UNCHANGED sessionVars
    /\ UNCHANGED videoVars

\* line 206: os.makedirs(os.path.dirname(output_path), exist_ok=True)
ParMkdir(p) ==
    /\ par_pc[p] = "mkdir"
    /\ par_dirs' = par_dirs \cup {DirOf(par_args[p].out)}
    /\ par_pc' = [par_pc EXCEPT ![p] = "save"]
    /\ UNCHANGED <<par_before, par_fs, par_args, par_local, par_status>>
    /\ UNCHANGED <<wrapVars, marginVars, fitVars, detectVars, splitVars,
                   overlayVars, callVars>>
    /\ UNCHANGED logoVars
    /\ UNCHANGED shadowVars
    /\ UNCHANGED drawVars
    /\ UNCHANGED workVars
    /\ UNCHANGED sessionVars
    /\ UNCHANGED videoVars

\* lines 207 and 754: save(output_path)
ParSave(p) ==
    /\ par_pc[p] = "save"
    /\ LET a == par_args[p]
       IN  IF DirOf(a.out) \in par_dirs
           THEN /\ par_fs' = [par_fs EXCEPT
                                 ![a.out] =
                                     Render(a, par_local[ParLocalSlot(p)])]
                /\ par_status' = [par_status EXCEPT
                                     ![p] = Succeeded(a.kind)]
           ELSE /\ par_status' = [par_status EXCEPT ![p] = Failed(a.kind)]
                /\ UNCHANGED par_fs
    /\ par_pc' = [par_pc EXCEPT ![p] = "done"]
    /\ UNCHANGED <<par_before, par_dirs, par_args, par_local>>
    /\ UNCHANGED <<wrapVars, marginVars, fitVars, detectVars, splitVars,
                   overlayVars, callVars>>
    /\ UNCHANGED logoVars
    /\ UNCHANGED shadowVars
    /\ UNCHANGED drawVars
    /\ UNCHANGED workVars
    /\ UNCHANGED sessionVars
    /\ UNCHANGED videoVars

ParNext ==
    \E p \in Calls :
        \/ ParOpen(p)
        \/ ParDetect(p)
        \/ ParLogo(p)
        \/ ParFrame(p)
        \/ ParMkdir(p)
        \/ ParSave(p)

SpecPar == ParInit /\ [][ParNext]_vars

-----------------------------------------------------------------------------
(* C15: independent calls do not interfere.                                *)

ParDone == \A p \in Calls : par_pc[p] = "done"

\* the output paths differ, and no call writes a file that the other reads
ParIndependent ==
    /\ par_args[1].out # par_args[2].out
    /\ \A p, q \in Calls :
           p # q => par_args[p].out \notin {par_args[q].src, LogoPath,
                                            FramePath}

SameAsAlone(p) ==
    LET alone == RunAlone(par_args[p], par_before.fs, par_before.dirs)
    IN  /\ par_status[p] = alone.status
        /\ par_fs[par_args[p].out] = alone.content

OldDirsExist ==
    \A p \in Calls :
        par_args[p].kind = "old" =>
            DirOf(par_args[p].out) \in par_before.dirs

-----------------------------------------------------------------------------
(* C16: in add_text_to_image, whenever a logo is composited, the top of    *)
(* the text block, its background rectangle included (bg_top = start_y -   *)
(* padding, padding = 20), is at or below the bottom edge of the resized   *)
(* logo.                                                                   *)

\* C16: text appears below the logo
C16_TextBelowLogo ==
    (overlay_pc \in {"draw", "frame", "save", "done"} /\ logo_added) =>
        start_y - 20 >= logo_box.bottom

-----------------------------------------------------------------------------
(* calculate_shadow (image_utils.py lines 9-32, main.py lines 1462-1476).  *)
(* The prominence is held in tenths, the opacity scale in tenths; int()    *)
(* of a non-negative number is the integer part.                           *)

Clamp(x, lo, hi) == Min2(hi, Max2(lo, x))

\* mutant: the offset without the lower limit of one pixel
ShadowOffsetNoMax(fs, prominence) == (fs * 4 * prominence) \div 1000

\* line 24: max(1, int(font_size * 0.04 * text_prominence))
ShadowOffset(fs, prominence) == Max2(1, (fs * 4 * prominence) \div 1000)

\* lines 28-30: int(140 * min(1.0, max(0.6, 1.1 - shadow_offset / 10)))
ShadowOpacity(offset) == (140 * Clamp(11 - offset, 6, 10)) \div 10

\* the values of prominence at the call sites: 1.0 and 1.2
Prominences == {10, 12}

ShadowInit ==
    /\ VideoIdle
    /\ SessionIdle
    /\ WorkIdle
    /\ DrawIdle
    /\ WrapIdle
    /\ MarginIdle
    /\ FitIdle
    /\ DetectIdle
    /\ SplitIdle
    /\ OverlayIdle
    /\ CallIdle
    /\ ParIdle
    /\ LogoIdle
    /\ shadow_font_size \in 1..MaxShadowFontSize
    /\ text_prominence \in Prominences
    /\ shadow_offset = 0
    /\ shadow_opacity = 0
    /\ shadow_pc = "call"

CalculateShadow ==
    /\ shadow_pc = "call"
    /\ shadow_offset' = ShadowOffset(shadow_font_size, text_prominence)
    /\ shadow_opacity' = ShadowOpacity(shadow_offset')
    /\ shadow_pc' = "returned"
    /\ UNCHANGED <<shadow_font_size, text_prominence>>
    /\ UNCHANGED <<wrapVars, marginVars, fitVars, detectVars, splitVars,
                   overlayVars, callVars, parVars, logoVars>>
    /\ UNCHANGED drawVars
    /\ UNCHANGED workVars
    /\ UNCHANGED sessionVars
    /\ UNCHANGED videoVars

ShadowNext == CalculateShadow

SpecShadow == ShadowInit /\ [][ShadowNext]_vars

-----------------------------------------------------------------------------
(* C17: the shadow formula.                                                *)

\* n / d rounded to the nearest integer (no tie occurs for the arguments used)
RoundDiv(n, d) == (2 * n + d) \div (2 * d)

\* C17: shadow_offset = max(1, round(font_size * 0.04 * prominence)) and
\* shadow_opacity = round(140 * clamp(1.1 - shadow_offset / 10, 0.6, 1.0));
\* the offset is at least 1 and the opacity lies between 84 and 140.
C17_ShadowFormula ==
    shadow_pc = "returned" =>
        /\ shadow_offset =
               Max2(1, RoundDiv(shadow_font_size * 4 * text_prominence, 1000))
        /\ shadow_opacity =
               RoundDiv(140 * Clamp(11 - shadow_offset, 6, 10), 10)
        /\ shadow_offset >= 1
        /\ shadow_opacity \in 84..140

\* C17 (amended): the offset is the integer part of
\* font_size * 0.04 * prominence, and 1 when that is 0; the opacity is
\* 140 * clamp(1.1 - shadow_offset / 10, 0.6, 1.0), a whole number; the
\* offset is at least 1 and the opacity lies between 84 and 140.
C17_ShadowFormulaAmended ==
    shadow_pc = "returned" =>
        LET x == shadow_font_size * 4 * text_prominence
        IN  /\ shadow_offset >= 1
            /\ x < 1000 => shadow_offset = 1
            /\ x >= 1000 => /\ shadow_offset * 1000 <= x
                            /\ x < (shadow_offset + 1) * 1000
            /\ shadow_opacity * 10 = 140 * Clamp(11 - shadow_offset, 6, 10)
            /\ shadow_opacity \in 84..140

\* C17 witness: a highlighted run at font size 40: 40 * 0.04 * 1.2 = 1.92,
\* offset 1, opacity 140
C17_Witness ==
    /\ shadow_pc = "returned"
    /\ shadow_font_size = 40
    /\ text_prominence = 12
    /\ shadow_offset = 1
    /\ shadow_opacity = 140

-----------------------------------------------------------------------------
(* C18: a caption that is one word, wider than the text box.               *)

RECURSIVE ConcatTexts(_)
ConcatTexts(ps) ==
    IF ps = <<>> THEN <<>> ELSE Head(ps).text \o ConcatTexts(Tail(ps))

\* the line cut to nine tenths of its characters, followed by an ellipsis
Truncated(line) == Slice(line, 0, (Len(line) * 9) \div 10) \o <<".", ".", ".">>

SingleLongWord ==
    /\ Len(Split(text)) = 1
    /\ PenAdvance(font, display_text) > max_text_width

\* C18: for a caption that is one word wider than the maximum text width the
\* wrapper returns one line, the fit loop accepts it, and the draw step draws
\* the line cut to 90% of its characters followed by an ellipsis: never the
\* whole word, never nothing.
C18_SingleWordTruncated ==
    (old_pc = "returned" /\ SingleLongWord) =>
        /\ Len(final_lines) = 1
        /\ final_lines = <<text>>
        /\ display_lines = <<display_text>>
        /\ ConcatTexts(drawn_parts) = Truncated(display_text)

-----------------------------------------------------------------------------
(* C20: the acceptance rule of the fit loop, for fonts that load.          *)

\* len(lines) * size * 1.1 + size * 1.2 <= max_text_height, in tenths
HeightAccepted(ls, size, maxh) ==
    Len(ls) * size * 11 + size * 12 <= maxh * 10

\* after an attempt: font is the font of the size tried, wrapped_lines its
\* lines; the size is kept when they fit and reduced when they do not
C20_AfterAttempt ==
    (~LoadRaises(font_env) /\ attempt >= 1
        /\ fit_pc \in {"loop", "fitted", "wrapped"}) =>
        /\ text_too_large =
               ~HeightAccepted(wrapped_lines, font.size, max_text_height)
        /\ ~text_too_large => font_size = font.size
        /\ text_too_large => /\ font_size = (font.size * 9) \div 10
                             /\ font_size < font.size
        /\ fit_pc = "wrapped" => final_lines = wrapped_lines

\* an attempt is made only while nothing has fitted, at the current size,
\* which is the initial size first and int(0.9 * previous) afterwards
C20_Attempt ==
    (~LoadRaises(font_env) /\ attempt' = attempt + 1) =>
        /\ text_too_large
        /\ font'.size = font_size
        /\ attempt = 0 => font'.size = initial_font_size
        /\ attempt >= 1 => /\ font'.size = (font.size * 9) \div 10
                           /\ font'.size < font.size

-----------------------------------------------------------------------------
(* C21: the runs of a line with highlight keywords stop at the right       *)
(* margin.                                                                 *)

\* C21: with highlight keywords no run is drawn whose right end (x cursor +
\* measured width) passes width - right_margin, and after a run of a line
\* was skipped for that reason no later run of that line is drawn: the runs
\* drawn are the first runs of the line, placed one after the other from
\* left_margin.
C21_RunsStopAtRightMargin ==
    has_highlights =>
        \A i \in 1..Len(drawn_parts) :
            LET d == drawn_parts[i]
            IN  /\ d.x + d.w <= width - right_margin
                /\ d.k = 1 => d.x = left_margin
                /\ d.k > 1 => /\ i > 1
                              /\ drawn_parts[i - 1].line = d.line
                              /\ drawn_parts[i - 1].k = d.k - 1
                              /\ d.x = drawn_parts[i - 1].x
                                         + drawn_parts[i - 1].w

\* C21 witness: a line of three runs of which only the first was drawn,
\* although the third alone would have fitted after it
C21_Witness ==
    /\ split_pc = "done"
    /\ has_highlights
    /\ Len(parts) = 3
    /\ Len(drawn_parts) = 1
    /\ drawn_parts[1].k = 1
    /\ drawn_parts[1].x + drawn_parts[1].w + BBoxWidth(font, parts[2].text)
           > width - right_margin
    /\ drawn_parts[1].x + drawn_parts[1].w + BBoxWidth(font, parts[3].text)
           <= width - right_margin

(***************************************************************************)
(* The bottom margin                                                       *)
(***************************************************************************)

\* a part was drawn on a line that starts below height - bottom_margin
DrawnPastBottom ==
    \E i \in 1..Len(drawn_parts) :
        drawn_parts[i].y > (height - bottom_margin) * 10

\* C22: once the running line y has passed height - bottom_margin, no
\* further line or sub-line of the caption is drawn, the sub-lines of a
\* re-wrapped overlong line included: no part is drawn at a y past the limit
C22_NoLineAfterBottomMargin == ~DrawnPastBottom

(***************************************************************************)
(* The safe text box                                                       *)
(***************************************************************************)

\* the part d lies in the box of the four margins (y in tenths of a pixel)
InSafeBox(d) ==
    /\ d.x >= left_margin
    /\ d.x + d.w <= width - right_margin
    /\ d.y >= top_margin * 10
    /\ d.y <= (height - bottom_margin) * 10

\* C23: every line or run that is drawn starts at or right of left_margin,
\* ends at or left of width - right_margin, and has its y between top_margin
\* and height - bottom_margin, whatever the length of the caption
C23_SafeTextBox ==
    \A i \in 1..Len(drawn_parts) : InSafeBox(drawn_parts[i])

(***************************************************************************)
(* The frame: margins and compositing                                      *)
(***************************************************************************)

\* C24: a call uses the frame-adjusted margins exactly when it composites a
\* frame: once the compositing step is over, frame_exists (which selects the
\* margins on lines 366-375) and frame_added agree, whatever files exist
C24_FrameMarginsIffComposited ==
    (old_pc \in {"save", "returned"}) => (frame_exists <=> frame_added)

(***************************************************************************)
(* Escaped quotes                                                          *)
(***************************************************************************)

\* C25: a keyword between backslash-escaped quotes (one or two backslashes)
\* is detected like the keyword between plain quotes: the keyword is the
\* inner text, and the text that is rendered has neither the quotes nor the
\* backslashes
C25_EscapedQuotesNormalized ==
    (text \in EscCaptions /\ split_pc # "keywords") =>
        /\ split_pc # "raised"
        /\ green_words = FindAllQuoted(EscCaption(0), 0)
        /\ display_text =
               DisplayText(EscCaption(0), FindAllQuoted(EscCaption(0), 0))

(***************************************************************************)
(* do_work: the image phase and the assembly                               *)
(***************************************************************************)

\* most bullet points of a summary
MaxPoints == 3

\* text_overlay.py line 8: def add_text_to_image(text, image_path, output_path)
OverlayParams == <<"text", "image_path", "output_path">>

\* the keyword arguments of the call on lines 115-126 of app_controller.py
BatchKeywords ==
    {"image_path", "output_path", "text", "font_path", "font_size",
     "text_color", "background_color", "position", "padding",
     "highlight_color"}

\* Python binds a call of npos positional arguments and the keyword
\* arguments kw to the parameters params, none of which has a default
Binds(params, npos, kw) ==
    LET names == {params[k] : k \in 1..Len(params)}
        byPos == {params[k] : k \in 1..Min2(npos, Len(params))}
    IN  /\ npos <= Len(params)
        /\ kw \subseteq names
        /\ kw \cap byPos = {}
        /\ byPos \cup kw = names

\* f"cache/clg/point_{i}.jpg"
ClgPoint(i) == <<"cache/clg/point_", i, ".jpg">>

\* one call of add_text_to_image: it raises TypeError when its arguments do
\* not bind, else it returns res (the function catches what its body raises)
OverlayCall(i, npos, kw, res) ==
    [point |-> i, output |-> ClgPoint(i),
     outcome |-> IF Binds(OverlayParams, npos, kw) THEN res ELSE "TypeError"]

WorkInit ==
    /\ VideoIdle
    /\ SessionIdle
    /\ WrapIdle
    /\ MarginIdle
    /\ FitIdle
    /\ DetectIdle
    /\ SplitIdle
    /\ OverlayIdle
    /\ CallIdle
    /\ ParIdle
    /\ LogoIdle
    /\ ShadowIdle
    /\ DrawIdle
    /\ work_src \in {"app_controller", "main"}
    /\ summary_len \in 0..MaxPoints
    /\ skip_image_generation \in BOOLEAN
    /\ work_i = 1
    /\ overlay_calls = <<>>
    /\ work_pc = "images"

\* app_controller.py lines 137-142, main.py lines 1338-1343: the existing
\* pictures are used
WorkSkip ==
    /\ work_pc = "images"
    /\ skip_image_generation
    /\ work_pc' = "video"
    /\ UNCHANGED <<work_src, summary_len, skip_image_generation, work_i,
                   overlay_calls>>
    /\ UNCHANGED <<wrapVars, marginVars, fitVars, detectVars, splitVars,
                   overlayVars, callVars, parVars, logoVars, shadowVars,
                   drawVars>>
    /\ UNCHANGED sessionVars
    /\ UNCHANGED videoVars

\* app_controller.py lines 90-101: generate_images_for_bullet_points returns
\* one path per bullet point, or raises into the except branch of line 127
WorkBatchImages ==
    /\ work_pc = "images"
    /\ ~skip_image_generation
    /\ work_src = "app_controller"
    /\ work_pc' \in {"batch", "fallback"}
    /\ work_i' = 1
    /\ UNCHANGED <<work_src, summary_len, skip_image_generation,
                   overlay_calls>>
    /\ UNCHANGED <<wrapVars, marginVars, fitVars, detectVars, splitVars,
                   overlayVars, callVars, parVars, logoVars, shadowVars,
                   drawVars>>
    /\ UNCHANGED sessionVars
    /\ UNCHANGED videoVars

\* app_controller.py lines 103-126: the overlay call of the batch loop; what
\* it raises is caught on line 127 and starts the fallback loop
WorkBatchOverlay ==
    /\ work_pc = "batch"
    /\ work_i <= summary_len
    /\ \E res \in {"True", "False"} :
         LET call == OverlayCall(work_i, 0, BatchKeywords, res)
         IN  /\ overlay_calls' = Append(overlay_calls, call)
             /\ IF call.outcome = "TypeError"
                THEN /\ work_pc' = "fallback"
                     /\ work_i' = 1
                ELSE /\ work_i' = work_i + 1
                     /\ UNCHANGED work_pc
    /\ UNCHANGED <<work_src, summary_len, skip_image_generation>>
    /\ UNCHANGED <<wrapVars, marginVars, fitVars, detectVars, splitVars,
                   overlayVars, callVars, parVars, logoVars, shadowVars,
                   drawVars>>
    /\ UNCHANGED sessionVars
    /\ UNCHANGED videoVars

\* app_controller.py lines 131-136: generate_image and the overlay call with
\* three positional arguments, one try block per bullet point
WorkFallback ==
    /\ work_pc = "fallback"
    /\ work_i <= summary_len
    /\ \E res \in {"True", "False"} :
         overlay_calls' = Append(overlay_calls, OverlayCall(work_i, 3, {}, res))
    /\ work_i' = work_i + 1
    /\ UNCHANGED <<work_src, summary_len, skip_image_generation, work_pc>>
    /\ UNCHANGED <<wrapVars, marginVars, fitVars, detectVars, splitVars,
                   overlayVars, callVars, parVars, logoVars, shadowVars,
                   drawVars>>
    /\ UNCHANGED sessionVars
    /\ UNCHANGED videoVars

\* main.py lines 1330-1337: generate_image and the overlay call with three
\* positional arguments, for each bullet point
WorkMainLoop ==
    /\ work_pc = "images"
    /\ ~skip_image_generation
    /\ work_src = "main"
    /\ work_i <= summary_len
    /\ \E res \in {"True", "False"} :
         overlay_calls' = Append(overlay_calls, OverlayCall(work_i, 3, {}, res))
    /\ work_i' = work_i + 1
    /\ UNCHANGED <<work_src, summary_len, skip_image_generation, work_pc>>
    /\ UNCHANGED <<wrapVars, marginVars, fitVars, detectVars, splitVars,
                   overlayVars, callVars, parVars, logoVars, shadowVars,
                   drawVars>>
    /\ UNCHANGED sessionVars
    /\ UNCHANGED videoVars

\* the loop over the bullet points is exhausted
WorkLoopEnd ==
    /\ \/ work_pc \in {"batch", "fallback"}
       \/ work_pc = "images" /\ ~skip_image_generation /\ work_src = "main"
    /\ work_i > summary_len
    /\ work_pc' = "video"
    /\ UNCHANGED <<work_src, summary_len, skip_image_generation, work_i,
                   overlay_calls>>
    /\ UNCHANGED <<wrapVars, marginVars, fitVars, detectVars, splitVars,
                   overlayVars, callVars, parVars, logoVars, shadowVars,
                   drawVars>>
    /\ UNCHANGED sessionVars
    /\ UNCHANGED videoVars

\* app_controller.py line 153, main.py line 1353: image_audio_to_video
WorkVideo ==
    /\ work_pc = "video"
    /\ work_pc' = "done"
    /\ UNCHANGED <<work_src, summary_len, skip_image_generation, work_i,
                   overlay_calls>>
    /\ UNCHANGED <<wrapVars, marginVars, fitVars, detectVars, splitVars,
                   overlayVars, callVars, parVars, logoVars, shadowVars,
                   drawVars>>
    /\ UNCHANGED sessionVars
    /\ UNCHANGED videoVars

WorkNext ==
    \/ WorkSkip
    \/ WorkBatchImages
    \/ WorkBatchOverlay
    \/ WorkFallback
    \/ WorkMainLoop
    \/ WorkLoopEnd
    \/ WorkVideo

SpecWork == WorkInit /\ [][WorkNext]_vars

\* the calls that completed
CompletedCalls ==
    SelectSeq(overlay_calls, LAMBDA c : c.outcome # "TypeError")

\* C26: with skip_image_generation false, no overlay call of do_work fails
\* because of its arguments, and when image_audio_to_video is called there
\* has been exactly one completed overlay call per bullet point, in bullet
\* order, each with the output path cache/clg/point_i.jpg
C26_OneOverlayPerBullet ==
    /\ \A k \in 1..Len(overlay_calls) : overlay_calls[k].outcome # "TypeError"
    /\ (work_pc \in {"video", "done"} /\ ~skip_image_generation) =>
          /\ Len(CompletedCalls) = summary_len
          /\ \A k \in 1..Len(CompletedCalls) :
                /\ CompletedCalls[k].point = k
                /\ CompletedCalls[k].output = ClgPoint(k)

(***************************************************************************)
(* check_session_state_integrity                                           *)
(***************************************************************************)

\* longest array of the session state
MaxFrames == 2

\* Python's None
None == "None"

\* line 63
required_arrays ==
    {"bullet_points", "frame_images", "frame_image_bytes", "frame_durations",
     "frame_audio"}

\* mutant: the surplus is trimmed from the front
RepairKeepingEnd(arr, expected_length, pad) ==
    IF Len(arr) > expected_length
    THEN SubSeq(arr, Len(arr) - expected_length + 1, Len(arr))
    ELSE arr \o [k \in 1..(expected_length - Len(arr)) |-> pad]

\* lines 75-85 (also 88-98 and 101-111): arr[:expected_length], or
\* arr.extend([pad] * (expected_length - len(arr)))
RepairLength(arr, expected_length, pad) ==
    IF Len(arr) > expected_length
    THEN SubSeq(arr, 1, expected_length)
    ELSE arr \o [k \in 1..(expected_length - Len(arr)) |-> pad]

\* lines 114-123: the frames whose bytes may be read from the image file
Loadable(images, bytes) ==
    IF Len(images) > 0 /\ Len(bytes) = Len(images)
    THEN {k \in 1..Len(images) : images[k] # None /\ bytes[k] = None}
    ELSE {}

\* the session state before the first call; a missing array is created empty
SessionInit ==
    /\ VideoIdle
    /\ WrapIdle
    /\ MarginIdle
    /\ FitIdle
    /\ DetectIdle
    /\ SplitIdle
    /\ OverlayIdle
    /\ CallIdle
    /\ ParIdle
    /\ LogoIdle
    /\ ShadowIdle
    /\ DrawIdle
    /\ WorkIdle
    /\ \E n \in 0..MaxFrames : bullet_points = [k \in 1..n |-> "point"]
    /\ frame_images \in SeqsUpTo({None, "a.jpg"}, MaxFrames)
    /\ frame_image_bytes \in SeqsUpTo({None, "bytes"}, MaxFrames)
    /\ frame_durations \in SeqsUpTo({50, 30}, MaxFrames)
    /\ session_keys \in SUBSET required_arrays
    /\ "bullet_points" \notin session_keys => bullet_points = <<>>
    /\ "frame_images" \notin session_keys => frame_images = <<>>
    /\ "frame_image_bytes" \notin session_keys => frame_image_bytes = <<>>
    /\ "frame_durations" \notin session_keys => frame_durations = <<>>
    /\ repairs_made = FALSE
    /\ session_before = [images |-> frame_images, bytes |-> frame_image_bytes,
                         durations |-> frame_durations,
                         bullets |-> bullet_points]
    /\ length_repairs = <<>>

\* lines 55-125: one call; the file of a frame may or may not be readable
CheckSessionStateIntegrity ==
    /\ Len(length_repairs) < 2
    /\ LET expected_length == Len(bullet_points)
           check == expected_length > 0
           images == IF check /\ Len(frame_images) # expected_length
                     THEN RepairLength(frame_images, expected_length, None)
                     ELSE frame_images
           bytes == IF check /\ Len(frame_image_bytes) # expected_length
                    THEN RepairLength(frame_image_bytes, expected_length, None)
                    ELSE frame_image_bytes
           durations == IF check /\ Len(frame_durations) # expected_length
                        THEN RepairLength(frame_durations, expected_length, 50)
                        ELSE frame_durations
           repaired == \/ Len(frame_images) # Len(images)
                       \/ Len(frame_image_bytes) # Len(bytes)
                       \/ Len(frame_durations) # Len(durations)
       IN  \E loaded \in SUBSET Loadable(images, bytes) :
             /\ session_keys' = required_arrays
             /\ frame_images' = images
             /\ frame_image_bytes' =
                    [k \in 1..Len(bytes) |->
                        IF k \in loaded THEN "bytes" ELSE bytes[k]]
             /\ frame_durations' = durations
             /\ length_repairs' = Append(length_repairs, check /\ repaired)
             /\ repairs_made' = \/ session_keys # required_arrays
                                \/ check /\ repaired
                                \/ loaded # {}
    /\ UNCHANGED <<bullet_points, session_before>>
    /\ UNCHANGED <<wrapVars, marginVars, fitVars, detectVars, splitVars,
                   overlayVars, callVars, parVars, logoVars, shadowVars,
                   drawVars, workVars>>
    /\ UNCHANGED videoVars

SessionNext == CheckSessionStateIntegrity

SpecSession == SessionInit /\ [][SessionNext]_vars

\* the k-th entry of old cut or padded
Repaired(old, k, pad) == IF k <= Len(old) THEN old[k] ELSE pad

\* arr is old cut to n entries, or old followed by pads
RepairOf(arr, old, n, pad) ==
    /\ Len(arr) = n
    /\ \A k \in 1..n : arr[k] = Repaired(old, k, pad)

\* the same, up to the bytes that a call has read from a frame's file
BytesRepairOf(arr, old, n) ==
    /\ Len(arr) = n
    /\ \A k \in 1..n :
          \/ arr[k] = Repaired(old, k, None)
          \/ /\ Repaired(old, k, None) = None
             /\ frame_images[k] # None
             /\ arr[k] = "bytes"

\* C27: after check_session_state_integrity has returned with a non-empty
\* bullet_points, frame_images, frame_image_bytes and frame_durations have
\* len(bullet_points) entries each: the old entries from the front, then None
\* (5.0 for the durations); bullet_points is as before, and the second of
\* two calls in a row repairs no length
C27_SessionArraysAligned ==
    (Len(length_repairs) >= 1 /\ Len(bullet_points) > 0) =>
        /\ RepairOf(frame_images, session_before.images,
                    Len(bullet_points), None)
        /\ BytesRepairOf(frame_image_bytes, session_before.bytes,
                         Len(bullet_points))
        /\ RepairOf(frame_durations, session_before.durations,
                    Len(bullet_points), 50)
        /\ bullet_points = session_before.bullets
        /\ Len(length_repairs) = 2 => ~length_repairs[2]

\* C27 witness: two calls were made on a session state whose frame_images
\* were too long and whose frame_durations were too short
C27_Witness ==
    /\ Len(length_repairs) = 2
    /\ length_repairs[1]
    /\ Len(bullet_points) > 0
    /\ Len(session_before.images) > Len(bullet_points)
    /\ Len(session_before.durations) < Len(bullet_points)
    /\ Len(frame_images) = Len(bullet_points)
    /\ Len(frame_durations) = Len(bullet_points)

(***************************************************************************)
(* The font object and font_size                                           *)
(***************************************************************************)

\* C28: when the font-fit loop has exited, in an environment where the
\* system font loads at every size, the font object that wraps and draws the
\* text was loaded at the font_size that the rest of the function uses, also
\* when the last attempt did not fit and font_size was reduced once more
C28_FontMatchesFontSize ==
    (fit_pc \in {"fitted", "wrapped"} /\ font_env.system) =>
        font.size = font_size

(***************************************************************************)
(* The detected border and the real border                                 *)
(***************************************************************************)

\* the frame that was read has the size of the canvas and an opaque border
\* of the same thickness, from 1 to half the smaller dimension, on its four
\* edges
UniformFrame ==
    /\ frame_rgba.exists
    /\ frame_rgba.readable
    /\ frame_rgba.fw = width
    /\ frame_rgba.fh = height
    /\ frame_rgba.l >= 1
    /\ frame_rgba.l <= Min2(width, height) \div 2
    /\ frame_rgba.r = frame_rgba.l
    /\ frame_rgba.t = frame_rgba.l
    /\ frame_rgba.b = frame_rgba.l

\* C29: for a frame with a uniform opaque border of thickness b around a
\* transparent interior, the frame_border_width that the detection ends
\* with is at least b
C29_DetectedBorderCoversBorder ==
    (detect_pc = "done" /\ UniformFrame) => frame_border_width >= frame_rgba.l

(***************************************************************************)
(* image_audio_to_video: the pairing of frames and narration               *)
(***************************************************************************)

\* most bullet points of a video
MaxBullets == 12

RECURSIVE Digits(_)
\* str(i) as character codes ("0" is 48)
Digits(i) == IF i < 10 THEN <<48 + i>> ELSE Digits(i \div 10) \o <<48 + (i % 10)>>

\* what tells point_<i>.jpg from point_<j>.jpg in a comparison of the file
\* names: the digits and the dot (46) after them
NameKey(i) == Digits(i) \o <<46>>

RECURSIVE LexLess(_, _)
\* a < b for two Python strings, given as character codes
LexLess(a, b) ==
    IF b = <<>> THEN FALSE
    ELSE IF a = <<>> THEN TRUE
    ELSE IF Head(a) # Head(b) THEN Head(a) < Head(b)
    ELSE LexLess(Tail(a), Tail(b))

RECURSIVE SortedNames(_)
\* sorted(glob.glob(...)) for the files point_<i>.<ext>, i in S
SortedNames(S) ==
    IF S = {} THEN <<>>
    ELSE LET first == CHOOSE i \in S :
                          \A j \in S \ {i} : LexLess(NameKey(i), NameKey(j))
         IN  <<first>> \o SortedNames(S \ {first})

\* the directories after the image and audio phases: cache/clg/point_i.jpg
\* for every bullet point, cache/aud/point_i.mp3 for every bullet point
\* whose text_to_speech call wrote its file
VideoInit ==
    /\ WrapIdle
    /\ MarginIdle
    /\ FitIdle
    /\ DetectIdle
    /\ SplitIdle
    /\ OverlayIdle
    /\ CallIdle
    /\ ParIdle
    /\ LogoIdle
    /\ ShadowIdle
    /\ DrawIdle
    /\ WorkIdle
    /\ SessionIdle
    /\ num_points \in 2..MaxBullets
    /\ missing_audio \in 0..num_points
    /\ add_voiceover \in BOOLEAN
    /\ image_files = <<>>
    /\ audio_files = <<>>
    /\ clips = <<>>
    /\ video_i = 0
    /\ video_pc = "list"

\* video_creator.py lines 28-29
VideoList ==
    /\ video_pc = "list"
    /\ image_files' = SortedNames(1..num_points)
    /\ audio_files' = SortedNames((1..num_points) \ {missing_audio})
    /\ video_i' = 0
    /\ video_pc' = "clips"
    /\ UNCHANGED <<num_points, missing_audio, add_voiceover, clips>>
    /\ UNCHANGED <<wrapVars, marginVars, fitVars, detectVars, splitVars,
                   overlayVars, callVars, parVars, logoVars, shadowVars,
                   drawVars, workVars, sessionVars>>

\* lines 58-66 and 76-120: one turn of the loop over image_files; the clip
\* has the audio of the same position when there is one (audio 0: none)
VideoClip ==
    /\ video_pc = "clips"
    /\ video_i < Len(image_files)
    /\ LET image == image_files[video_i + 1]
           audio == IF add_voiceover /\ video_i < Len(audio_files)
                    THEN audio_files[video_i + 1] ELSE 0
       IN  clips' = Append(clips, [image |-> image, audio |-> audio])
    /\ video_i' = video_i + 1
    /\ UNCHANGED <<num_points, missing_audio, add_voiceover, image_files,
                   audio_files, video_pc>>
    /\ UNCHANGED <<wrapVars, marginVars, fitVars, detectVars, splitVars,
                   overlayVars, callVars, parVars, logoVars, shadowVars,
                   drawVars, workVars, sessionVars>>

\* the loop is exhausted; the clips are concatenated in the order of the list
VideoConcat ==
    /\ video_pc = "clips"
    /\ video_i = Len(image_files)
    /\ video_pc' = "done"
    /\ UNCHANGED <<num_points, missing_audio, add_voiceover, image_files,
                   audio_files, clips, video_i>>
    /\ UNCHANGED <<wrapVars, marginVars, fitVars, detectVars, splitVars,
                   overlayVars, callVars, parVars, logoVars, shadowVars,
                   drawVars, workVars, sessionVars>>

VideoNext == VideoList \/ VideoClip \/ VideoConcat

SpecVideo == VideoInit /\ [][VideoNext]_vars

\* C30: with voiceover and an audio file for every bullet point, for 2 to 12
\* bullet points, the k-th clip of the video shows the picture of the k-th
\* bullet point and carries the audio of the k-th bullet point
C30_FramesAndNarrationPaired ==
    (video_pc = "done" /\ add_voiceover /\ missing_audio = 0) =>
        /\ Len(clips) = num_points
        /\ \A k \in 1..Len(clips) :
              /\ clips[k].image = k
              /\ clips[k].audio = k

-----------------------------------------------------------------------------
(* Specification of the wrapper: the loop of smart_wrap_text, one word per *)
(* step                                                                    *)

WrapChars == {"a", "j", SP}

WrapFonts == {[size |-> 4, lsb |-> 0], [size |-> 4, lsb |-> 1]}

WrapWidths == 2..9

WrapInit ==
    /\ VideoIdle
    /\ SessionIdle
    /\ WorkIdle
    /\ DrawIdle
    /\ ShadowIdle
    /\ LogoIdle
    /\ ParIdle
    /\ CallIdle
    /\ MarginIdle
    /\ FitIdle
    /\ DetectIdle
    /\ SplitIdle
    /\ OverlayIdle
    /\ wrap_text \in SeqsUpTo(WrapChars, MaxTextLen)
    /\ wrap_font \in WrapFonts
    /\ max_width \in WrapWidths
    /\ words = Split(wrap_text)
    /\ word_i = 1
    /\ lines = <<>>
    /\ current_line = <<>>
    /\ current_width = 0
    /\ wrap_pc = "loop"

WrapWord ==
    /\ wrap_pc = "loop"
    /\ word_i <= Len(words)
    /\ LET st == WrapStep([lines |-> lines, current_line |-> current_line,
                           current_width |-> current_width],
                          words[word_i], wrap_font, max_width)
       IN  /\ lines' = st.lines
           /\ current_line' = st.current_line
           /\ current_width' = st.current_width
    /\ word_i' = word_i + 1
    /\ UNCHANGED <<wrap_text, wrap_font, max_width, words, wrap_pc>>
    /\ UNCHANGED <<marginVars, fitVars, detectVars, splitVars,
                   overlayVars, callVars>>
    /\ UNCHANGED parVars
    /\ UNCHANGED logoVars
    /\ UNCHANGED shadowVars
    /\ UNCHANGED drawVars
    /\ UNCHANGED workVars
    /\ UNCHANGED sessionVars
    /\ UNCHANGED videoVars

WrapReturn ==
    /\ wrap_pc = "loop"
    /\ word_i > Len(words)
    /\ lines' = WrapFlush([lines |-> lines, current_line |-> current_line,
                           current_width |-> current_width])
    /\ wrap_pc' = "done"
    /\ UNCHANGED <<wrap_text, wrap_font, max_width, words, word_i,
                   current_line, current_width>>
    /\ UNCHANGED <<marginVars, fitVars, detectVars, splitVars,
                   overlayVars, callVars>>
    /\ UNCHANGED parVars
    /\ UNCHANGED logoVars
    /\ UNCHANGED shadowVars
    /\ UNCHANGED drawVars
    /\ UNCHANGED workVars
    /\ UNCHANGED sessionVars
    /\ UNCHANGED videoVars

WrapNext == WrapWord \/ WrapReturn

SpecWrap == WrapInit /\ [][WrapNext]_vars

-----------------------------------------------------------------------------
(* C1: every line smart_wrap_text returns measures at most max_width, or   *)
(* it is a single word that is wider than max_width by itself.             *)

LineFits(fnt, line, maxw) ==
    \/ BBoxWidth(fnt, line) <= maxw
    \/ Len(Split(line)) = 1 /\ BBoxWidth(fnt, Split(line)[1]) > maxw

\* C1: wrap correctness, for every text, font and max_width
C1_WrapCorrect ==
    wrap_pc = "done" =>
        \A k \in 1..Len(lines) : LineFits(wrap_font, lines[k], max_width)

-----------------------------------------------------------------------------
(* C19: the wrapper preserves the words.                                   *)

\* the words of the lines, line after line
RECURSIVE WordsOfLines(_)
WordsOfLines(ls) ==
    IF ls = <<>> THEN <<>> ELSE Split(Head(ls)) \o WordsOfLines(Tail(ls))

\* C19: smart_wrap_text never splits a word and never returns an empty line;
\* the returned lines joined with single spaces are the whitespace-split
\* words of the text in their order; a text without words gives no line.
C19_WordsPreserved ==
    wrap_pc = "done" =>
        /\ \A i \in 1..Len(lines) : lines[i] # <<>>
        /\ \A i \in 1..Len(lines) : lines[i] = Join(Split(lines[i]))
        /\ WordsOfLines(lines) = Split(wrap_text)
        /\ Join(lines) = Join(Split(wrap_text))
        /\ Split(wrap_text) = <<>> => lines = <<>>

\* C19 witness: three words returned on two lines
C19_Witness ==
    /\ wrap_pc = "done"
    /\ Len(Split(wrap_text)) = 3
    /\ Len(lines) = 2
    /\ Len(Split(lines[1])) = 2

=============================================================================
